---- MODULE Spec2Model ----
(***************************************************************************)
(* palimp-core: the Application facade over one SQLite store guarded by a  *)
(* tokio Mutex, the crawl orchestrator (new_crawl / process_single_page)   *)
(* and the query engine (Application::query / query).                      *)
(*                                                                         *)
(* One task runs new_crawl; the tasks of Users call the other facade       *)
(* methods concurrently.  Every await point of the code is a step          *)
(* boundary: a lock acquisition, an HTTP request in flight.                *)
(***************************************************************************)
EXTENDS Integers, Sequences, FiniteSets, TLC

\* ------------------------------------------------------------------------
\* Bounds of the model
\* ------------------------------------------------------------------------
MaxUrls == 2        \* longest sitemap the server answers with
MaxLimit == 2       \* largest max_concurrent passed to new_crawl
MaxCalls == 2       \* facade calls the user tasks make in one behaviour
MaxId == 1          \* ids the callers pass as arguments are in 1..MaxId
MaxRow == 4         \* largest rowid of a table in the runs of the store calls
MaxArg == 2         \* ids passed to the store calls are in 1..MaxArg
MaxStoreCalls == 3  \* store calls made on a store in one behaviour
MaxCmds == 3        \* commands the UI sends in one behaviour

\* ------------------------------------------------------------------------
\* Program constants
\* ------------------------------------------------------------------------
PAGE_SIZE_LIMIT_MB == 10
\* tl::parse refuses an input longer than u32::MAX bytes (4096 MB)
ParseLimitMB == 4096

None == 0           \* Option::None of an id; rowids start at 1
Users == {"u1", "u2"}
CrawlTask == "crawl"

Urls == {"/a", "/b"}
Domains == {"example.com"}
SitemapUrls == {"/sitemap.xml"}
Selectors == {"div.item", "span.missing", "div..bad"}
ValidSelectors == {"div.item", "span.missing", "p"}

\* ------------------------------------------------------------------------
\* HTML documents: the elements of the page (by the selector that matches
\* each) and the size of the text in MB
\* ------------------------------------------------------------------------
DocItems == [els |-> <<"div.item", "div.item", "div.item", "p">>, mb |-> 1]
DocPlain == [els |-> <<"p">>, mb |-> 1]
DocBig == [els |-> <<"p">>, mb |-> 11]
DocHuge == [els |-> <<"p">>, mb |-> 4097]

Max(S) == CHOOSE x \in S : \A y \in S : y <= x

\* A set of rows as the sequence a table scan yields: by rowid
RECURSIVE ByRowid(_)
ByRowid(rows) ==
    IF rows = {} THEN <<>>
    ELSE LET r == CHOOSE x \in rows : \A y \in rows : x.id <= y.id
         IN <<r>> \o ByRowid(rows \ {r})

\* ------------------------------------------------------------------------
\* The store: five tables, foreign keys ON
\* ------------------------------------------------------------------------
EmptyDb == [sites |-> {}, crawls |-> {}, pages |-> {}, queries |-> {}, results |-> {}]

\* (variant: the smallest id no row has, the gap a delete left is filled)
NextIdLowestFree(rows) ==
    CHOOSE i \in 1..(Cardinality(rows) + 1) :
        /\ i \notin {r.id : r \in rows}
        /\ \A j \in 1..(i - 1) : j \in {r.id : r \in rows}

\* INTEGER PRIMARY KEY without AUTOINCREMENT: one more than the largest rowid
NextId(rows) == IF rows = {} THEN 1 ELSE Max({r.id : r \in rows}) + 1

Ids(rows) == {r.id : r \in rows}

\* Site::sync, the insert arm
SiteInsert(d, domain, sitemap_url) ==
    LET id == NextId(d.sites)
    IN [ok |-> TRUE, id |-> id,
        db |-> [d EXCEPT !.sites = @ \cup
                  {[id |-> id, domain |-> domain, sitemap_url |-> sitemap_url]}]]

\* Site::fetch
SiteFetch(d, id) ==
    IF id \in Ids(d.sites)
    THEN [ok |-> TRUE, site |-> CHOOSE s \in d.sites : s.id = id]
    ELSE [ok |-> FALSE, site |-> [id |-> None, domain |-> "", sitemap_url |-> ""]]

\* ON DELETE CASCADE, from a set of crawl ids down
CascadeCrawls(d, cids) ==
    LET gonePages == {p \in d.pages : p.crawl_id \in cids}
    IN [d EXCEPT !.crawls = {c \in @ : c.id \notin cids},
                 !.pages = @ \ gonePages,
                 !.queries = {q \in @ : q.crawl_id \notin cids},
                 !.results = {r \in @ : r.page_id \notin Ids(gonePages)}]

\* (variant: PRAGMA foreign_keys is left off, the delete does not cascade)
SiteDeleteNoCascade(d, id) == [ok |-> TRUE, db |-> [d EXCEPT !.sites = {s \in @ : s.id # id}]]

\* Site::delete: DELETE FROM sites WHERE id = ?1 (no row: nothing happens, Ok)
SiteDelete(d, id) ==
    LET cids == {c.id : c \in {x \in d.crawls : x.site_id = id}}
        d1 == CascadeCrawls(d, cids)
    IN [ok |-> TRUE, db |-> [d1 EXCEPT !.sites = {s \in @ : s.id # id}]]

\* (variant: DELETE FROM crawls WHERE site_id = the site of the crawl)
CrawlDeleteOfSite(d, id) ==
    [ok |-> TRUE,
     db |-> CascadeCrawls(d, {c.id : c \in {x \in d.crawls :
                                  \E y \in d.crawls : y.id = id /\ y.site_id = x.site_id}})]

\* Crawl::delete
CrawlDelete(d, id) == [ok |-> TRUE, db |-> CascadeCrawls(d, {id})]

\* Crawl::sync, the insert arm: site_id REFERENCES sites
CrawlInsert(d, site_id, time) ==
    IF site_id \in Ids(d.sites)
    THEN LET id == NextId(d.crawls)
         IN [ok |-> TRUE, id |-> id,
             db |-> [d EXCEPT !.crawls = @ \cup
                       {[id |-> id, site_id |-> site_id, started_at |-> time]}]]
    ELSE [ok |-> FALSE, id |-> None, db |-> d]

\* (variant: PRAGMA foreign_keys is left off, crawl_id is not checked)
PageSyncUnchecked(d, page) ==
    IF page.crawl_id # None
    THEN LET id == NextId(d.pages)
         IN [ok |-> TRUE, id |-> id,
             db |-> [d EXCEPT !.pages = @ \cup
                       {[id |-> id, crawl_id |-> page.crawl_id, url |-> page.url,
                         final_url |-> page.final_url,
                         html_content |-> page.html_content]}]]
    ELSE [ok |-> FALSE, id |-> None, db |-> d]

\* (variant: INSERT OR REPLACE on (crawl_id, url), the page of a url that was
\* archived for the crawl before takes the place of the old one)
PageSyncReplace(d, page) ==
    IF page.crawl_id # None /\ page.crawl_id \in Ids(d.crawls)
    THEN LET old == {p \in d.pages : p.crawl_id = page.crawl_id /\ p.url = page.url}
             id == IF old = {} THEN NextId(d.pages) ELSE Max(Ids(old))
         IN [ok |-> TRUE, id |-> id,
             db |-> [d EXCEPT !.pages = (@ \ old) \cup
                       {[id |-> id, crawl_id |-> page.crawl_id, url |-> page.url,
                         final_url |-> page.final_url,
                         html_content |-> page.html_content]}]]
    ELSE [ok |-> FALSE, id |-> None, db |-> d]

\* (variant: a page without crawl_id is filed under the newest crawl)
PageSyncNewestCrawl(d, page) ==
    LET cid == IF page.crawl_id # None THEN page.crawl_id
               ELSE IF d.crawls = {} THEN None ELSE Max(Ids(d.crawls))
    IN IF cid \in Ids(d.crawls)
       THEN LET id == NextId(d.pages)
            IN [ok |-> TRUE, id |-> id,
                db |-> [d EXCEPT !.pages = @ \cup
                          {[id |-> id, crawl_id |-> cid, url |-> page.url,
                            final_url |-> page.final_url,
                            html_content |-> page.html_content]}]]
       ELSE [ok |-> FALSE, id |-> None, db |-> d]

\* Page::sync: a page without crawl_id is refused; crawl_id REFERENCES crawls
PageSync(d, page) ==
    IF page.crawl_id # None /\ page.crawl_id \in Ids(d.crawls)
    THEN LET id == NextId(d.pages)
         IN [ok |-> TRUE, id |-> id,
             db |-> [d EXCEPT !.pages = @ \cup
                       {[id |-> id, crawl_id |-> page.crawl_id, url |-> page.url,
                         final_url |-> page.final_url,
                         html_content |-> page.html_content]}]]
    ELSE [ok |-> FALSE, id |-> None, db |-> d]

\* (variant: queries.crawl_id is a plain column, no foreign key)
QueryInsertUnchecked(d, crawl_id, selector) ==
    LET id == NextId(d.queries)
    IN [ok |-> TRUE, id |-> id,
        db |-> [d EXCEPT !.queries = @ \cup
                  {[id |-> id, crawl_id |-> crawl_id, selector |-> selector]}]]

\* (variant: a (crawl, selector) pair that was asked before is not recorded again)
QueryInsertDedup(d, crawl_id, selector) ==
    IF crawl_id \notin Ids(d.crawls) THEN [ok |-> FALSE, id |-> None, db |-> d]
    ELSE IF \E q \in d.queries : q.crawl_id = crawl_id /\ q.selector = selector
    THEN [ok |-> TRUE,
          id |-> (CHOOSE q \in d.queries :
                     q.crawl_id = crawl_id /\ q.selector = selector).id,
          db |-> d]
    ELSE LET id == NextId(d.queries)
         IN [ok |-> TRUE, id |-> id,
             db |-> [d EXCEPT !.queries = @ \cup
                       {[id |-> id, crawl_id |-> crawl_id, selector |-> selector]}]]

\* Query::sync, the insert arm: crawl_id REFERENCES crawls
QueryInsert(d, crawl_id, selector) ==
    IF crawl_id \in Ids(d.crawls)
    THEN LET id == NextId(d.queries)
         IN [ok |-> TRUE, id |-> id,
             db |-> [d EXCEPT !.queries = @ \cup
                       {[id |-> id, crawl_id |-> crawl_id, selector |-> selector]}]]
    ELSE [ok |-> FALSE, id |-> None, db |-> d]

\* ResultEntry::sync, the insert arm: page_id REFERENCES pages
ResultInsert(d, page_id, selector, count) ==
    IF page_id \in Ids(d.pages)
    THEN LET id == NextId(d.results)
         IN [ok |-> TRUE, id |-> id,
             db |-> [d EXCEPT !.results = @ \cup
                       {[id |-> id, page_id |-> page_id, selector |-> selector,
                         count |-> count]}]]
    ELSE [ok |-> FALSE, id |-> None, db |-> d]

\* ResultEntry::sync on an entry without id.  io: the engine carries the
\* statement out; it is FALSE when it refuses it for a reason of its own
\* (SQLITE_FULL, SQLITE_IOERR, SQLITE_BUSY while another process writes to
\* palimp.db), and conn.execute(..)? returns before self.id is set
ResultSync(d, page_id, selector, count, io) ==
    IF io THEN ResultInsert(d, page_id, selector, count)
    ELSE [ok |-> FALSE, id |-> None, db |-> d]

\* Site::fetch_all, Crawl::fetch_all, Query::fetch_all: a table scan
FetchAll(rows) == ByRowid(rows)

\* (variant: the update sets started_at anew)
CrawlUpdateRestart(d, id, site_id) ==
    IF id \notin Ids(d.crawls) THEN [ok |-> TRUE, id |-> id, db |-> d]
    ELSE IF site_id \notin Ids(d.sites) THEN [ok |-> FALSE, id |-> id, db |-> d]
    ELSE [ok |-> TRUE, id |-> id,
          db |-> [d EXCEPT !.crawls =
                    {IF c.id = id THEN [c EXCEPT !.site_id = site_id,
                                                 !.started_at = "now"]
                     ELSE c : c \in @}]]

\* Crawl::sync, the update arm: UPDATE crawls SET site_id = ?1 WHERE id = ?2
\* (no such row: nothing to update, nothing to check, Ok)
CrawlUpdate(d, id, site_id) ==
    IF id \notin Ids(d.crawls) THEN [ok |-> TRUE, id |-> id, db |-> d]
    ELSE IF site_id \notin Ids(d.sites) THEN [ok |-> FALSE, id |-> id, db |-> d]
    ELSE [ok |-> TRUE, id |-> id,
          db |-> [d EXCEPT !.crawls =
                    {IF c.id = id THEN [c EXCEPT !.site_id = site_id] ELSE c : c \in @}]]

\* Query::sync, the update arm
QueryUpdate(d, id, crawl_id, selector) ==
    IF id \notin Ids(d.queries) THEN [ok |-> TRUE, id |-> id, db |-> d]
    ELSE IF crawl_id \notin Ids(d.crawls) THEN [ok |-> FALSE, id |-> id, db |-> d]
    ELSE [ok |-> TRUE, id |-> id,
          db |-> [d EXCEPT !.queries =
                    {IF q.id = id THEN [q EXCEPT !.crawl_id = crawl_id,
                                                 !.selector = selector]
                     ELSE q : q \in @}]]

\* Query::fetch
QueryRowFetch(d, id) ==
    IF id \in Ids(d.queries)
    THEN [ok |-> TRUE, query |-> CHOOSE q \in d.queries : q.id = id]
    ELSE [ok |-> FALSE, query |-> [id |-> None, crawl_id |-> None, selector |-> ""]]

\* (variant: the results of the selector of the query go with it, whatever
\* crawl their page is of)
QueryDeleteWithSelector(d, id) ==
    [ok |-> TRUE,
     db |-> [d EXCEPT !.queries = {q \in @ : q.id # id},
                      !.results = {r \in @ :
                          ~\E q \in d.queries : q.id = id /\ q.selector = r.selector}]]

\* (variant: the results of the (crawl, selector) of the query go with it)
QueryDeleteWithResults(d, id) ==
    [ok |-> TRUE,
     db |-> [d EXCEPT !.queries = {q \in @ : q.id # id},
                      !.results = {r \in @ :
                          ~\E q \in d.queries, p \in d.pages :
                              /\ q.id = id /\ q.selector = r.selector
                              /\ p.id = r.page_id /\ p.crawl_id = q.crawl_id}]]

\* Query::delete: nothing references a Query row
QueryDelete(d, id) == [ok |-> TRUE, db |-> [d EXCEPT !.queries = {q \in @ : q.id # id}]]

\* ResultEntry::delete
ResultDelete(d, id) == [ok |-> TRUE, db |-> [d EXCEPT !.results = {r \in @ : r.id # id}]]

\* ResultEntry::fetch_by_crawl_and_selector: the results rows whose page is a
\* page of the crawl and whose selector is the selector
FetchByCrawlAndSelector(d, crawl_id, selector) ==
    ByRowid({r \in d.results :
                /\ r.selector = selector
                /\ \E p \in d.pages : p.id = r.page_id /\ p.crawl_id = crawl_id})

\* PageArchive::fetch_by_crawl_id
FetchByCrawlId(d, crawl_id) == ByRowid({p \in d.pages : p.crawl_id = crawl_id})

\* the table that holds the records of a kind
Kinds == {"site", "crawl", "page", "query", "result"}
Table(d, kind) ==
    CASE kind = "site" -> d.sites
      [] kind = "crawl" -> d.crawls
      [] kind = "page" -> d.pages
      [] kind = "query" -> d.queries
      [] kind = "result" -> d.results

\* (variant: conn.query_row(..).optional(), no row is Ok without a record)
FetchOptional(d, kind, id) ==
    LET rows == Table(d, kind)
    IN IF id \in Ids(rows)
       THEN [ok |-> TRUE, rows |-> <<CHOOSE r \in rows : r.id = id>>]
       ELSE [ok |-> TRUE, rows |-> <<>>]

\* Site::fetch, Crawl::fetch, PageArchive::fetch, Query::fetch and
\* ResultEntry::fetch: conn.query_row(".. WHERE id = ?1", ..), which is
\* Err(QueryReturnedNoRows) when the table has no such row
Fetch(d, kind, id) ==
    LET rows == Table(d, kind)
    IN IF id \in Ids(rows)
       THEN [ok |-> TRUE, rows |-> <<CHOOSE r \in rows : r.id = id>>]
       ELSE [ok |-> FALSE, rows |-> <<>>]

\* Site::sync, the update arm: UPDATE sites SET domain = ?1, sitemap_url = ?2
\* WHERE id = ?3 (no such row: nothing to update, Ok)
SiteUpdate(d, id, domain, sitemap_url) ==
    [ok |-> TRUE, id |-> id,
     db |-> [d EXCEPT !.sites =
               {IF s.id = id THEN [s EXCEPT !.domain = domain,
                                            !.sitemap_url = sitemap_url]
                ELSE s : s \in @}]]

\* ResultEntry::sync, the update arm: UPDATE results SET selector = ?1,
\* count = ?2 WHERE id = ?3 (page_id is not among the columns it sets)
ResultUpdate(d, id, page_id, selector, count) ==
    [ok |-> TRUE, id |-> id,
     db |-> [d EXCEPT !.results =
               {IF r.id = id THEN [r EXCEPT !.selector = selector, !.count = count]
                ELSE r : r \in @}]]

\* ------------------------------------------------------------------------
\* HTTPClient, Sitemap::new, Page::new and the selector count
\* ------------------------------------------------------------------------
NoLen == -1         \* the response declares no Content-Length

Err(reason) == [ok |-> FALSE, reason |-> reason]

\* What a server may answer to a page request
PageResponses(url) ==
    { [reach |-> FALSE, status |-> 0, clen |-> NoLen, ctype |-> "", final_url |-> url,
       readable |-> FALSE, doc |-> DocPlain],
      [reach |-> TRUE, status |-> 404, clen |-> 1, ctype |-> "text/html", final_url |-> url,
       readable |-> TRUE, doc |-> DocPlain],
      [reach |-> TRUE, status |-> 200, clen |-> 11, ctype |-> "text/html", final_url |-> url,
       readable |-> TRUE, doc |-> DocBig],
      [reach |-> TRUE, status |-> 200, clen |-> 1, ctype |-> "application/json",
       final_url |-> url, readable |-> TRUE, doc |-> DocPlain],
      [reach |-> TRUE, status |-> 200, clen |-> 1, ctype |-> "text/html; charset=utf-8",
       final_url |-> url, readable |-> FALSE, doc |-> DocPlain],
      [reach |-> TRUE, status |-> 200, clen |-> 1, ctype |-> "text/html; charset=utf-8",
       final_url |-> url, readable |-> TRUE, doc |-> DocItems],
      [reach |-> TRUE, status |-> 200, clen |-> NoLen, ctype |-> "text/html",
       final_url |-> "/moved", readable |-> TRUE, doc |-> DocBig],
      [reach |-> TRUE, status |-> 200, clen |-> NoLen, ctype |-> "text/html",
       final_url |-> url, readable |-> TRUE, doc |-> DocHuge] }

IsSuccess(status) == status >= 200 /\ status <= 299
ContainsTextHtml(ctype) == ctype \in {"text/html", "text/html; charset=utf-8"}
ContainsXml(ctype) == ctype \in {"application/xml", "text/xml"}
EndsWithXml(url) == url \in {"/sitemap.xml"}

\* HTTPClient::get_html
GetHtml(url, r) ==
    IF ~r.reach THEN Err("connect")
    ELSE IF ~IsSuccess(r.status) THEN Err("status")
    ELSE IF r.clen # NoLen /\ r.clen > PAGE_SIZE_LIMIT_MB THEN Err("size")
    ELSE IF ~ContainsTextHtml(r.ctype) THEN Err("content-type")
    ELSE IF ~r.readable THEN Err("read")
    ELSE [ok |-> TRUE, final_url |-> r.final_url, html |-> r.doc]

\* tl::parse
ParseOk(html) == html.mb < ParseLimitMB

\* Page::new
PageNew(url, final_url, html, crawl_id) ==
    IF ParseOk(html)
    THEN [ok |-> TRUE, url |-> url, final_url |-> final_url, html_content |-> html,
          crawl_id |-> crawl_id]
    ELSE Err("parse")

\* page.dom.query_selector(selector): None when the selector does not parse
SelectorParses(selector) == selector \in ValidSelectors

\* nodes.count() as u32: a parsed document has fewer than 2^32 bytes, so the
\* cast keeps the count
SelectorCount(html, selector) ==
    Cardinality({i \in 1..Len(html.els) : html.els[i] = selector})

\* Sitemap documents: well-formed or not, and the <loc> of each <url>
\* (the names of the urls are interchangeable: a list starts with "/a")
UrlLists == {l \in UNION {[1..n -> Urls] : n \in 0..MaxUrls} : l = <<>> \/ l[1] = "/a"}
SitemapBodies == {[wellformed |-> FALSE, locs |-> <<>>]} \cup
                 {[wellformed |-> TRUE, locs |-> l] : l \in UrlLists}

SitemapResponses ==
    {[reach |-> FALSE, ctype |-> "", readable |-> FALSE,
      body |-> [wellformed |-> FALSE, locs |-> <<>>]]} \cup
    {[reach |-> TRUE, ctype |-> c, readable |-> TRUE, body |-> b] :
        c \in {"application/xml", "text/html"}, b \in SitemapBodies} \cup
    {[reach |-> TRUE, ctype |-> "text/xml", readable |-> FALSE,
      body |-> [wellformed |-> FALSE, locs |-> <<>>]]}

\* (variant: the content type and the end of the url must both say XML)
GetSitemapBoth(url, r) ==
    IF ~r.reach THEN Err("connect")
    ELSE IF ~ContainsXml(r.ctype) \/ ~EndsWithXml(url) THEN Err("content-type")
    ELSE IF ~r.readable THEN Err("read")
    ELSE [ok |-> TRUE, body |-> r.body]

\* HTTPClient::get_sitemap (the status is not looked at)
GetSitemap(url, r) ==
    IF ~r.reach THEN Err("connect")
    ELSE IF ~ContainsXml(r.ctype) /\ ~EndsWithXml(url) THEN Err("content-type")
    ELSE IF ~r.readable THEN Err("read")
    ELSE [ok |-> TRUE, body |-> r.body]

\* Sitemap::new: UrlSet.urls is a required field, a urlset without <url> is refused
SitemapNew(body) ==
    IF body.wellformed /\ Len(body.locs) > 0
    THEN [ok |-> TRUE, urls |-> body.locs]
    ELSE Err("xml")

\* ------------------------------------------------------------------------
\* State
\* ------------------------------------------------------------------------
VARIABLES
    db,         \* the store: [sites, crawls, pages, queries, results]
    lock,       \* Application.db, the tokio Mutex: its holder, or NoOne
    cpc,        \* new_crawl: where the call is
    carg,       \* new_crawl: its arguments [site_id, max_concurrent]
    csite,      \* new_crawl: the Site it fetched
    curls,      \* new_crawl: sitemap.urlset.urls
    cid,        \* new_crawl: crawl_id, None before the Crawl row is written
    step,       \* new_crawl: one process_single_page future per url
    outcomes,   \* the calls of on_update, in order
    cgone,      \* history: the Crawl row of this call was deleted
    upc,        \* user task: where its facade call is
    uop,        \* user task: the call and its arguments
    qpages,     \* query: pages_archive
    qi,         \* query: position of the loop in pages_archive
    qres,       \* query: all_results
    ures,       \* user task: how its last call returned
    calls,      \* facade calls made by the user tasks so far
    pre,        \* history: the store before the last store call
    call,       \* history: the last store call and its arguments
    ret,        \* history: what the last store call returned
    born,       \* history: when each row of the store was inserted
    dead,       \* history: the ids of the rows that were deleted
    hreq,       \* HTTPClient: the request it was called with and where it is
    hresp,      \* HTTPClient: what the server answers to the request
    hret,       \* HTTPClient: what the call returned
    chan,       \* GUI: the commands in the channel from the UI to the logic thread
    gpc,        \* GUI: the logic thread, in its command loop or at its end
    gsent,      \* history: the commands the UI put on the channel, in order
    ghandled,   \* history: the commands the loop handled and how the call went
    gcache,     \* GUI: results_cache, the rows last shown for a crawl id
    gindex      \* GUI: site_index_map, the site ids as refresh_sites listed them

vars == <<db, lock, cpc, carg, csite, curls, cid, step, outcomes, cgone,
          upc, uop, qpages, qi, qres, ures, calls, pre, call, ret, born, dead,
          hreq, hresp, hret, chan, gpc, gsent, ghandled, gcache, gindex>>

storeVars == <<pre, call, ret, born, dead>>
httpVars == <<hreq, hresp, hret>>
guiVars == <<chan, gpc, gsent, ghandled, gcache, gindex>>
crawlVars == <<cpc, carg, csite, curls, cid, step, outcomes>>
userVars == <<upc, uop, qpages, qi, qres, ures, calls>>

NoOne == "nobody"
NoSite == [id |-> None, domain |-> "", sitemap_url |-> ""]
NoPage == [ok |-> FALSE, reason |-> ""]
NoOp == [op |-> "none", id |-> None, domain |-> "", url |-> "", selector |-> ""]

\* CURRENT_TIMESTAMP of the store
Now == "t0"

\* CURRENT_TIMESTAMP when the n-th store call is made
Clock(n) ==
    CASE n = 0 -> Now
      [] n = 1 -> "t1"
      [] n = 2 -> "t2"
      [] n = 3 -> "t3"
      [] n = 4 -> "t4"
      [] OTHER -> "t5"

NoCall == [op |-> "none", kind |-> "", id |-> None, ref |-> None, domain |-> "",
           url |-> "", selector |-> "", count |-> 0, doc |-> DocPlain, refused |-> {}]
NoRet == [ok |-> TRUE, id |-> None, rows |-> <<>>]

\* The rows of a store that was there when the program started: written
\* before every call, in the order of their ids
Stamped(d) == [k \in Kinds |-> [id \in Ids(Table(d, k)) |-> [at |-> 0, n |-> id]]]

\* HTTPClient at rest: no request made, nothing answered, nothing returned
NoRequest == [st |-> "idle", fn |-> "none", url |-> ""]
NoAnswer == [reach |-> FALSE]
NoResult == Err("none")

NewStep == [st |-> "pending", page |-> NoPage, err |-> "", row |-> None]

Init ==
    /\ db = EmptyDb
    /\ lock = NoOne
    /\ cpc = "idle"
    /\ carg = [site_id |-> None, max_concurrent |-> 0]
    /\ csite = NoSite
    /\ curls = <<>>
    /\ cid = None
    /\ step = <<>>
    /\ outcomes = <<>>
    /\ cgone = FALSE
    /\ upc = [u \in Users |-> "idle"]
    /\ uop = [u \in Users |-> NoOp]
    /\ qpages = [u \in Users |-> <<>>]
    /\ qi = [u \in Users |-> 0]
    /\ qres = [u \in Users |-> <<>>]
    /\ ures = [u \in Users |-> "none"]
    /\ calls = 0
    /\ pre = EmptyDb
    /\ call = NoCall
    /\ ret = NoRet
    /\ born = Stamped(db)
    /\ dead = [k \in Kinds |-> {}]
    /\ hreq = NoRequest
    /\ hresp = NoAnswer
    /\ hret = NoResult
    /\ chan = <<>>
    /\ gpc = "running"
    /\ gsent = <<>>
    /\ ghandled = <<>>
    /\ gcache = <<>>
    /\ gindex = <<>>

\* (variant: the lock is granted although it is held)
LockFreeAlways == TRUE

\* db.lock().await returns
LockFree == lock = NoOne

\* ------------------------------------------------------------------------
\* new_crawl
\* ------------------------------------------------------------------------
Steps == 1..Len(step)

\* futures of for_each_concurrent that were started and have not completed
Active == {i \in Steps : step[i].st \notin {"pending", "done"}}

\* (variant: a limit of 0 lets no future start)
MayStartStrict(limit) == Cardinality(Active) < limit

\* for_each_concurrent(limit): a limit of 0 is no limit
MayStart(limit) == limit = 0 \/ Cardinality(Active) < limit

\* (variant: each future is a task of its own and the tasks run in parallel)
BusyNever == FALSE

\* A future that holds the lock or is calling on_update is being polled: it
\* has no await before it completes, so no other future of the call runs
Busy == \E i \in Steps : step[i].st \in {"locked", "emit"}

\* (variant: the call returns once every future was started)
AllDoneStarted == \A i \in Steps : step[i].st # "pending"

AllDone == \A i \in Steps : step[i].st = "done"

\* (variant: every result is reported as PageSucceeded)
OutcomeOfAlwaysOk(i, url, err) ==
    [kind |-> "PageSucceeded", idx |-> i, url |-> url, reason |-> ""]

\* (variant: the arms of the match are swapped)
OutcomeOfSwapped(i, url, err) ==
    IF err = ""
    THEN [kind |-> "PageFailed", idx |-> i, url |-> url, reason |-> err]
    ELSE [kind |-> "PageSucceeded", idx |-> i, url |-> url, reason |-> ""]

\* the match on the result of process_single_page
OutcomeOf(i, url, err) ==
    IF err = ""
    THEN [kind |-> "PageSucceeded", idx |-> i, url |-> url, reason |-> ""]
    ELSE [kind |-> "PageFailed", idx |-> i, url |-> url, reason |-> err]

CrawlCall(site_id, max_concurrent) ==
    /\ cpc = "idle"
    /\ cpc' = "site_wait"
    /\ carg' = [site_id |-> site_id, max_concurrent |-> max_concurrent]
    /\ UNCHANGED <<db, lock, csite, curls, cid, step, outcomes, cgone>>
    /\ UNCHANGED <<userVars, storeVars, httpVars, guiVars>>

CrawlSiteLock ==
    /\ cpc = "site_wait"
    /\ LockFree
    /\ lock' = CrawlTask
    /\ cpc' = "site_fetch"
    /\ UNCHANGED <<db, carg, csite, curls, cid, step, outcomes, cgone>>
    /\ UNCHANGED <<userVars, storeVars, httpVars, guiVars>>

\* (variant: the Crawl row is written as soon as the site is found)
CrawlSiteFetchEarlyRow ==
    /\ cpc = "site_fetch"
    /\ LET r == SiteFetch(db, carg.site_id)
       IN /\ csite' = r.site
          /\ cpc' = IF r.ok THEN "sitemap" ELSE "ret_err"
          /\ db' = CrawlInsert(db, carg.site_id, Now).db
    /\ lock' = NoOne
    /\ UNCHANGED <<carg, curls, cid, step, outcomes, cgone>>
    /\ UNCHANGED <<userVars, storeVars, httpVars, guiVars>>

\* (variant: the guard is not in a block of its own and lives on after the
\* site is read)
CrawlSiteFetchKeepLock ==
    /\ cpc = "site_fetch"
    /\ LET r == SiteFetch(db, carg.site_id)
       IN /\ csite' = r.site
          /\ cpc' = IF r.ok THEN "sitemap" ELSE "ret_err"
    /\ UNCHANGED <<db, lock, carg, curls, cid, step, outcomes, cgone>>
    /\ UNCHANGED <<userVars, storeVars, httpVars, guiVars>>

\* Site::fetch(site_id, &*db_lock), then the guard is dropped
CrawlSiteFetch ==
    /\ cpc = "site_fetch"
    /\ LET r == SiteFetch(db, carg.site_id)
       IN /\ csite' = r.site
          /\ cpc' = IF r.ok THEN "sitemap" ELSE "ret_err"
    /\ lock' = NoOne
    /\ UNCHANGED <<db, carg, curls, cid, step, outcomes, cgone>>
    /\ UNCHANGED <<userVars, storeVars, httpVars, guiVars>>

CrawlSitemap(resp) ==
    /\ cpc = "sitemap"
    /\ LET g == GetSitemap(csite.sitemap_url, resp)
           s == IF g.ok THEN SitemapNew(g.body) ELSE g
       IN IF s.ok
          THEN /\ curls' = s.urls
               /\ step' = [i \in 1..Len(s.urls) |-> NewStep]
               /\ cpc' = "crawl_wait"
          ELSE /\ cpc' = "ret_err"
               /\ UNCHANGED <<curls, step>>
    /\ UNCHANGED <<db, lock, carg, csite, cid, outcomes, cgone>>
    /\ UNCHANGED <<userVars, storeVars, httpVars, guiVars>>

CrawlRowLock ==
    /\ cpc = "crawl_wait"
    /\ LockFree
    /\ lock' = CrawlTask
    /\ cpc' = "crawl_sync"
    /\ UNCHANGED <<db, carg, csite, curls, cid, step, outcomes, cgone>>
    /\ UNCHANGED <<userVars, storeVars, httpVars, guiVars>>

\* (variant: the stream of fetches is started and the Crawl row is left for
\* later)
CrawlRowSyncDeferred ==
    /\ cpc = "crawl_sync"
    /\ cpc' = "run"
    /\ lock' = NoOne
    /\ UNCHANGED <<db, carg, csite, curls, cid, step, outcomes, cgone>>
    /\ UNCHANGED <<userVars, storeVars, httpVars, guiVars>>

\* crawl.sync(&mut *db_lock)?; crawl.id.ok_or(..)?, then the guard is dropped
CrawlRowSync ==
    /\ cpc = "crawl_sync"
    /\ LET r == CrawlInsert(db, carg.site_id, Now)
       IN /\ db' = r.db
          /\ cid' = r.id
          /\ cpc' = IF r.ok THEN "run" ELSE "ret_err"
    /\ lock' = NoOne
    /\ UNCHANGED <<carg, csite, curls, step, outcomes, cgone>>
    /\ UNCHANGED <<userVars, storeVars, httpVars, guiVars>>

StepStart(i) ==
    /\ cpc = "run"
    /\ ~Busy
    /\ step[i].st = "pending"
    /\ \A j \in 1..(i - 1) : step[j].st # "pending"
    /\ MayStart(carg.max_concurrent)
    /\ step' = [step EXCEPT ![i].st = "fetching"]
    /\ UNCHANGED <<db, lock, cpc, carg, csite, curls, cid, outcomes, cgone>>
    /\ UNCHANGED <<userVars, storeVars, httpVars, guiVars>>

\* (variant: a failed page ends the whole call with its error)
StepFetchedAbort(i, resp) ==
    /\ cpc = "run"
    /\ ~Busy
    /\ step[i].st = "fetching"
    /\ LET g == GetHtml(curls[i], resp)
           p == IF g.ok THEN PageNew(curls[i], g.final_url, g.html, cid) ELSE g
       IN IF p.ok
          THEN /\ step' = [step EXCEPT ![i].st = "lockwait", ![i].page = p]
               /\ UNCHANGED cpc
          ELSE /\ step' = [step EXCEPT ![i].st = "done", ![i].err = p.reason]
               /\ cpc' = "ret_err"
    /\ UNCHANGED <<db, lock, carg, csite, curls, cid, outcomes, cgone>>
    /\ UNCHANGED <<userVars, storeVars, httpVars, guiVars>>

\* client.get_html(url).await returns, then Page::new
StepFetched(i, resp) ==
    /\ cpc = "run"
    /\ ~Busy
    /\ step[i].st = "fetching"
    /\ LET g == GetHtml(curls[i], resp)
           p == IF g.ok THEN PageNew(curls[i], g.final_url, g.html, cid) ELSE g
       IN IF p.ok
          THEN step' = [step EXCEPT ![i].st = "lockwait", ![i].page = p]
          ELSE step' = [step EXCEPT ![i].st = "emit", ![i].err = p.reason]
    /\ UNCHANGED <<db, lock, cpc, carg, csite, curls, cid, outcomes, cgone>>
    /\ UNCHANGED <<userVars, storeVars, httpVars, guiVars>>

StepLock(i) ==
    /\ cpc = "run"
    /\ ~Busy
    /\ step[i].st = "lockwait"
    /\ LockFree
    /\ lock' = CrawlTask
    /\ step' = [step EXCEPT ![i].st = "locked"]
    /\ UNCHANGED <<db, cpc, carg, csite, curls, cid, outcomes, cgone>>
    /\ UNCHANGED <<userVars, storeVars, httpVars, guiVars>>

\* (variant: the result of page.sync is dropped, as query does with its rows)
StepSyncIgnoreErr(i) ==
    /\ cpc = "run"
    /\ step[i].st = "locked"
    /\ LET r == PageSync(db, step[i].page)
       IN /\ db' = r.db
          /\ step' = [step EXCEPT ![i].st = "emit",
                                  ![i].page = NoPage,
                                  ![i].err = "",
                                  ![i].row = r.id]
    /\ lock' = NoOne
    /\ UNCHANGED <<cpc, carg, csite, curls, cid, outcomes, cgone>>
    /\ UNCHANGED <<userVars, storeVars, httpVars, guiVars>>

\* page.sync(&mut *db_lock)?, then the guard is dropped
StepSync(i) ==
    /\ cpc = "run"
    /\ step[i].st = "locked"
    /\ LET r == PageSync(db, step[i].page)
       IN /\ db' = r.db
          /\ step' = [step EXCEPT ![i].st = "emit",
                                  ![i].page = NoPage,
                                  ![i].err = IF r.ok THEN "" ELSE "store",
                                  ![i].row = r.id]
    /\ lock' = NoOne
    /\ UNCHANGED <<cpc, carg, csite, curls, cid, outcomes, cgone>>
    /\ UNCHANGED <<userVars, storeVars, httpVars, guiVars>>

\* (variant: a step that failed is put back to be fetched again)
StepEmitRetry(i) ==
    /\ cpc = "run"
    /\ step[i].st = "emit"
    /\ outcomes' = Append(outcomes, OutcomeOf(i, curls[i], step[i].err))
    /\ step' = [step EXCEPT ![i].st = IF step[i].err = "" THEN "done" ELSE "pending"]
    /\ UNCHANGED <<db, lock, cpc, carg, csite, curls, cid, cgone>>
    /\ UNCHANGED <<userVars, storeVars, httpVars, guiVars>>

\* on_update_clone(...)
StepEmit(i) ==
    /\ cpc = "run"
    /\ step[i].st = "emit"
    /\ outcomes' = Append(outcomes, OutcomeOf(i, curls[i], step[i].err))
    /\ step' = [step EXCEPT ![i].st = "done"]
    /\ UNCHANGED <<db, lock, cpc, carg, csite, curls, cid, cgone>>
    /\ UNCHANGED <<userVars, storeVars, httpVars, guiVars>>

\* for_each_concurrent(...).await returns; Ok(())
CrawlReturn ==
    /\ cpc = "run"
    /\ AllDone
    /\ cpc' = "ret_ok"
    /\ UNCHANGED <<db, lock, carg, csite, curls, cid, step, outcomes, cgone>>
    /\ UNCHANGED <<userVars, storeVars, httpVars, guiVars>>

\* ------------------------------------------------------------------------
\* The other facade calls, made by the user tasks
\* ------------------------------------------------------------------------
IdArgs == 1..MaxId

UserOps ==
    {[NoOp EXCEPT !.op = "new_site", !.domain = d, !.url = s] :
        d \in Domains, s \in SitemapUrls} \cup
    {[NoOp EXCEPT !.op = o, !.id = i] :
        o \in {"delete_site", "delete_crawl"}, i \in IdArgs} \cup
    {[NoOp EXCEPT !.op = "query", !.id = i, !.selector = sel] :
        i \in IdArgs, sel \in Selectors} \cup
    {[NoOp EXCEPT !.op = "list_sites"]}

\* What a call that takes the lock once does to the store:
\* Application::new_site, delete_site, delete_crawl, list_sites
Apply(d, op) ==
    CASE op.op = "new_site" -> SiteInsert(d, op.domain, op.url)
      [] op.op = "delete_site" -> SiteDelete(d, op.id)
      [] op.op = "delete_crawl" -> CrawlDelete(d, op.id)
      [] OTHER -> [ok |-> TRUE, db |-> d]

\* (variant: the loop without the test count_u32 > 0)
QueryPageAnyCount(d, archive, selector, io) ==
    LET page == PageNew(archive.url, archive.final_url, archive.html_content,
                        archive.crawl_id)
    IN IF page.ok /\ SelectorParses(selector)
       THEN LET count == SelectorCount(archive.html_content, selector)
                r == ResultSync(d, archive.id, selector, count, io)
            IN [db |-> r.db,
                pushed |-> <<[id |-> r.id, page_id |-> archive.id,
                              selector |-> selector, count |-> count]>>]
       ELSE [db |-> d, pushed |-> <<>>]

\* (variant: the entry records that the page matches, not how often)
QueryPageOnePerPage(d, archive, selector, io) ==
    LET page == PageNew(archive.url, archive.final_url, archive.html_content,
                        archive.crawl_id)
    IN IF page.ok /\ SelectorParses(selector)
          /\ SelectorCount(archive.html_content, selector) > 0
       THEN LET r == ResultSync(d, archive.id, selector, 1, io)
            IN [db |-> r.db,
                pushed |-> <<[id |-> r.id, page_id |-> archive.id,
                              selector |-> selector, count |-> 1]>>]
       ELSE [db |-> d, pushed |-> <<>>]

\* One turn of the loop of query over an archived page: the new store and
\* what is pushed to all_results.  let _ = result_entry.sync(&mut db): the
\* entry is pushed whether or not the INSERT went through
QueryPage(d, archive, selector, io) ==
    LET page == PageNew(archive.url, archive.final_url, archive.html_content,
                        archive.crawl_id)
    IN IF page.ok /\ SelectorParses(selector)
          /\ SelectorCount(archive.html_content, selector) > 0
       THEN LET count == SelectorCount(archive.html_content, selector)
                r == ResultSync(d, archive.id, selector, count, io)
            IN [db |-> r.db,
                pushed |-> <<[id |-> r.id, page_id |-> archive.id,
                              selector |-> selector, count |-> count]>>]
       ELSE [db |-> d, pushed |-> <<>>]

\* a facade method is called: self.db.lock().await
UserCall(u) ==
    /\ upc[u] = "idle"
    /\ calls < MaxCalls
    /\ calls' = calls + 1
    /\ upc' = [upc EXCEPT ![u] = "wait"]
    /\ ures' = [ures EXCEPT ![u] = "none"]
    /\ UNCHANGED <<db, lock, uop, qpages, qi, qres, cgone>>
    /\ UNCHANGED <<crawlVars, storeVars, httpVars, guiVars>>

\* the lock is granted to the call; its arguments are first used from here on
UserLock(u, op) ==
    /\ upc[u] = "wait"
    /\ LockFree
    /\ lock' = u
    /\ uop' = [uop EXCEPT ![u] = op]
    /\ upc' = [upc EXCEPT ![u] = IF op.op = "query" THEN "q_sync" ELSE "exec"]
    /\ UNCHANGED <<db, qpages, qi, qres, ures, calls, cgone>>
    /\ UNCHANGED <<crawlVars, storeVars, httpVars, guiVars>>

\* the store operation of the call, then the guard is dropped
UserExec(u) ==
    /\ upc[u] = "exec"
    /\ LET r == Apply(db, uop[u])
       IN /\ db' = r.db
          /\ ures' = [ures EXCEPT ![u] = IF r.ok THEN "ok" ELSE "err"]
          /\ cgone' = (cgone \/ (cid \in Ids(db.crawls) /\ cid \notin Ids(r.db.crawls)))
    /\ lock' = NoOne
    /\ upc' = [upc EXCEPT ![u] = "idle"]
    /\ uop' = [uop EXCEPT ![u] = NoOp]
    /\ UNCHANGED <<qpages, qi, qres, calls>>
    /\ UNCHANGED <<crawlVars, storeVars, httpVars, guiVars>>

\* (variant: the lock is taken for q.sync alone and given back after it)
QuerySyncRelease(u) ==
    /\ upc[u] = "q_sync"
    /\ LET r == QueryInsert(db, uop[u].id, uop[u].selector)
       IN /\ db' = r.db
          /\ IF r.ok
             THEN /\ upc' = [upc EXCEPT ![u] = "q_fetch"]
                  /\ UNCHANGED <<uop, ures>>
             ELSE /\ upc' = [upc EXCEPT ![u] = "idle"]
                  /\ uop' = [uop EXCEPT ![u] = NoOp]
                  /\ ures' = [ures EXCEPT ![u] = "err"]
    /\ lock' = NoOne
    /\ UNCHANGED <<qpages, qi, qres, calls, cgone>>
    /\ UNCHANGED <<crawlVars, storeVars, httpVars, guiVars>>

\* Application::query: q.sync(&mut db)?
QuerySync(u) ==
    /\ upc[u] = "q_sync"
    /\ LET r == QueryInsert(db, uop[u].id, uop[u].selector)
       IN /\ db' = r.db
          /\ IF r.ok
             THEN /\ upc' = [upc EXCEPT ![u] = "q_fetch"]
                  /\ UNCHANGED <<lock, uop, ures>>
             ELSE /\ upc' = [upc EXCEPT ![u] = "idle"]
                  /\ uop' = [uop EXCEPT ![u] = NoOp]
                  /\ ures' = [ures EXCEPT ![u] = "err"]
                  /\ lock' = NoOne
    /\ UNCHANGED <<qpages, qi, qres, calls, cgone>>
    /\ UNCHANGED <<crawlVars, storeVars, httpVars, guiVars>>

\* (variant: the pages are read and the lock is given back before the loop)
QueryFetchRelease(u) ==
    /\ upc[u] = "q_fetch"
    /\ qpages' = [qpages EXCEPT ![u] = FetchByCrawlId(db, uop[u].id)]
    /\ qi' = [qi EXCEPT ![u] = 1]
    /\ qres' = [qres EXCEPT ![u] = <<>>]
    /\ upc' = [upc EXCEPT ![u] = "q_loop"]
    /\ lock' = NoOne
    /\ UNCHANGED <<db, uop, ures, calls, cgone>>
    /\ UNCHANGED <<crawlVars, storeVars, httpVars, guiVars>>

\* query: PageArchive::fetch_by_crawl_id(crawl_id, &db)?
QueryFetch(u) ==
    /\ upc[u] = "q_fetch"
    /\ qpages' = [qpages EXCEPT ![u] = FetchByCrawlId(db, uop[u].id)]
    /\ qi' = [qi EXCEPT ![u] = 1]
    /\ qres' = [qres EXCEPT ![u] = <<>>]
    /\ upc' = [upc EXCEPT ![u] = "q_loop"]
    /\ UNCHANGED <<db, lock, uop, ures, calls, cgone>>
    /\ UNCHANGED <<crawlVars, storeVars, httpVars, guiVars>>

\* query: one turn of for archive in pages_archive
QueryLoop(u, io) ==
    /\ upc[u] = "q_loop"
    /\ qi[u] <= Len(qpages[u])
    /\ LET r == QueryPage(db, qpages[u][qi[u]], uop[u].selector, io)
       IN /\ db' = r.db
          /\ qres' = [qres EXCEPT ![u] = @ \o r.pushed]
    /\ qi' = [qi EXCEPT ![u] = @ + 1]
    /\ UNCHANGED <<lock, upc, uop, qpages, ures, calls, cgone>>
    /\ UNCHANGED <<crawlVars, storeVars, httpVars, guiVars>>

\* query: Ok(all_results); the guard of Application::query is dropped
QueryReturn(u) ==
    /\ upc[u] = "q_loop"
    /\ qi[u] > Len(qpages[u])
    /\ lock' = NoOne
    /\ upc' = [upc EXCEPT ![u] = "idle"]
    /\ uop' = [uop EXCEPT ![u] = NoOp]
    /\ ures' = [ures EXCEPT ![u] = "ok"]
    /\ qpages' = [qpages EXCEPT ![u] = <<>>]
    /\ qi' = [qi EXCEPT ![u] = 0]
    /\ qres' = [qres EXCEPT ![u] = <<>>]
    /\ UNCHANGED <<db, calls, cgone>>
    /\ UNCHANGED <<crawlVars, storeVars, httpVars, guiVars>>

\* ------------------------------------------------------------------------
\* The calls as transactions on the store.  A facade method other than
\* new_crawl holds the lock from its first line to its return, and new_crawl
\* touches the store in Site::fetch, Crawl::sync and Page::sync, each under
\* the lock: a run of the program is, for the store, a sequence of these
\* calls.  Crawl::sync, Page::sync and Query::sync are also called on the
\* locked store directly (tests/application_tests.rs).
\* ------------------------------------------------------------------------
ArgIds == 1..MaxArg
StoreSelectors == {"div.item", "p"}
\* the domains a Site is renamed to and the counts a ResultEntry is given
StoreDomains == {"example.com", "example.org"}
StoreCounts == {0, 3}
\* the pages that get archived: where they are and what they hold
StorePages == {[url |-> "/a", doc |-> DocItems], [url |-> "/b", doc |-> DocPlain]}

\* Stores an earlier run of the program left in palimp.db, each written by
\* the calls below: Application::new opens the file as it is
WithSite(d) == SiteInsert(d, "example.com", "/sitemap.xml").db
WithCrawl(d, site_id) == CrawlInsert(d, site_id, Now).db
WithPage(d, crawl_id, url, doc) == PageSync(d, PageNew(url, url, doc, crawl_id)).db

\* one site, one crawl, a page with three div.item and a p, a page with a p
SeedOneCrawl ==
    WithPage(WithPage(WithCrawl(WithSite(EmptyDb), 1), 1, "/a", DocItems),
             1, "/b", DocPlain)
\* one site crawled twice
SeedSiblings ==
    WithPage(WithPage(WithCrawl(WithCrawl(WithSite(EmptyDb), 1), 1), 1, "/a", DocItems),
             2, "/a", DocItems)
\* two sites, each crawled once
SeedTwoSites ==
    WithPage(WithPage(WithCrawl(WithCrawl(WithSite(WithSite(EmptyDb)), 1), 2),
                      1, "/a", DocItems),
             2, "/b", DocPlain)

Seeds == {EmptyDb, SeedOneCrawl, SeedSiblings, SeedTwoSites}

\* for archive in pages_archive, from the k-th page on; refused: the turns of
\* the loop whose INSERT the engine refuses
RECURSIVE QueryFrom(_, _, _, _, _, _)
QueryFrom(d, pages, k, selector, refused, acc) ==
    IF k > Len(pages) THEN [db |-> d, rows |-> acc]
    ELSE LET r == QueryPage(d, pages[k], selector, k \notin refused)
         IN QueryFrom(r.db, pages, k + 1, selector, refused, acc \o r.pushed)

\* Application::query
RunQuery(d, crawl_id, selector, refused) ==
    LET q == QueryInsert(d, crawl_id, selector)
    IN IF ~q.ok THEN [ok |-> FALSE, id |-> None, rows |-> <<>>, db |-> d]
       ELSE LET l == QueryFrom(q.db, FetchByCrawlId(q.db, crawl_id), 1, selector,
                               refused, <<>>)
            IN [ok |-> TRUE, id |-> q.id, rows |-> l.rows, db |-> l.db]

\* (variant: the results are fetched for the query id in place of its crawl id)
ListResultsForQueryById(d, query_id) ==
    LET q == QueryRowFetch(d, query_id)
        results == FetchByCrawlAndSelector(d, query_id, q.query.selector)
    IN IF ~q.ok THEN [ok |-> FALSE, rows |-> <<>>]
       ELSE IF \E k \in 1..Len(results) : results[k].page_id \notin Ids(d.pages)
       THEN [ok |-> FALSE, rows |-> <<>>]
       ELSE [ok |-> TRUE,
             rows |-> [k \in 1..Len(results) |->
                         [entry |-> results[k],
                          page_url |-> (CHOOSE p \in d.pages :
                                           p.id = results[k].page_id).url]]]

\* Application::list_results_for_query
ListResultsForQuery(d, query_id) ==
    LET q == QueryRowFetch(d, query_id)
        results == FetchByCrawlAndSelector(d, q.query.crawl_id, q.query.selector)
    IN IF ~q.ok THEN [ok |-> FALSE, rows |-> <<>>]
       ELSE IF \E k \in 1..Len(results) : results[k].page_id \notin Ids(d.pages)
       THEN [ok |-> FALSE, rows |-> <<>>]
       ELSE [ok |-> TRUE,
             rows |-> [k \in 1..Len(results) |->
                         [entry |-> results[k],
                          page_url |-> (CHOOSE p \in d.pages :
                                           p.id = results[k].page_id).url]]]

\* The call that is the calls-th one has turned db into db': the rows it
\* inserted are stamped with the number of the call and their place among
\* the rows the call inserted, the rows it deleted are remembered
Recorded ==
    /\ born' = [k \in Kinds |->
                  [id \in Ids(Table(db', k)) |->
                     IF id \in Ids(Table(db, k)) THEN born[k][id]
                     ELSE [at |-> calls',
                           n |-> Cardinality({j \in Ids(Table(db', k)) \ Ids(Table(db, k)) :
                                                 j <= id})]]]
    /\ dead' = [k \in Kinds |-> dead[k] \cup (Ids(Table(db, k)) \ Ids(Table(db', k)))]

\* what every store call does to the history and leaves alone
Called(c) ==
    /\ calls < MaxStoreCalls
    /\ calls' = calls + 1
    /\ pre' = db
    /\ call' = c
    /\ UNCHANGED <<lock, cgone, upc, uop, qpages, qi, qres, ures>>
    /\ UNCHANGED <<crawlVars, httpVars, guiVars>>

\* the store is kept within the bound
Within(d) == \A t \in {d.sites, d.crawls, d.pages, d.queries, d.results} :
                 \A r \in t : r.id <= MaxRow

AppNewSite(domain, sitemap_url) ==
    /\ LockFree
    /\ Called([NoCall EXCEPT !.op = "new_site", !.domain = domain, !.url = sitemap_url])
    /\ \E r \in {SiteInsert(db, domain, sitemap_url)} :
          /\ Within(r.db)
          /\ db' = r.db
          /\ ret' = [ok |-> r.ok, id |-> r.id, rows |-> <<>>]

    /\ Recorded
AppListSites ==
    /\ LockFree
    /\ Called([NoCall EXCEPT !.op = "list_sites"])
    /\ db' = db
    /\ ret' = [ok |-> TRUE, id |-> None, rows |-> FetchAll(db.sites)]

    /\ Recorded
AppDeleteSite(id) ==
    /\ LockFree
    /\ Called([NoCall EXCEPT !.op = "delete_site", !.id = id])
    /\ \E r \in {SiteDelete(db, id)} :
          db' = r.db /\ ret' = [ok |-> r.ok, id |-> None, rows |-> <<>>]

    /\ Recorded
AppDeleteCrawl(id) ==
    /\ LockFree
    /\ Called([NoCall EXCEPT !.op = "delete_crawl", !.id = id])
    /\ \E r \in {CrawlDelete(db, id)} :
          db' = r.db /\ ret' = [ok |-> r.ok, id |-> None, rows |-> <<>>]

    /\ Recorded
AppDeleteQuery(id) ==
    /\ LockFree
    /\ Called([NoCall EXCEPT !.op = "delete_query", !.id = id])
    /\ \E r \in {QueryDelete(db, id)} :
          db' = r.db /\ ret' = [ok |-> r.ok, id |-> None, rows |-> <<>>]

    /\ Recorded
AppDeleteResult(id) ==
    /\ LockFree
    /\ Called([NoCall EXCEPT !.op = "delete_result", !.id = id])
    /\ \E r \in {ResultDelete(db, id)} :
          db' = r.db /\ ret' = [ok |-> r.ok, id |-> None, rows |-> <<>>]

    /\ Recorded
\* Crawl::new(id, site_id).sync(db): id = None inserts, an id updates
CrawlSync(id, site_id) ==
    /\ LockFree
    /\ Called([NoCall EXCEPT !.op = "crawl_sync", !.id = id, !.ref = site_id])
    /\ \E r \in {IF id = None THEN CrawlInsert(db, site_id, Clock(calls + 1))
                ELSE CrawlUpdate(db, id, site_id)} :
          /\ Within(r.db)
          /\ db' = r.db
          /\ ret' = [ok |-> r.ok, id |-> r.id, rows |-> <<>>]

    /\ Recorded
\* Query::new(Some(id), crawl_id, selector).sync(db)
QuerySyncUpdate(id, crawl_id, selector) ==
    /\ LockFree
    /\ Called([NoCall EXCEPT !.op = "query_sync", !.id = id, !.ref = crawl_id,
                             !.selector = selector])
    /\ \E r \in {QueryUpdate(db, id, crawl_id, selector)} :
          db' = r.db /\ ret' = [ok |-> r.ok, id |-> r.id, rows |-> <<>>]

    /\ Recorded
\* Page::new(url, url, html, crawl_id)?.sync(db)
PageSyncCall(crawl_id, url, doc) ==
    /\ LockFree
    /\ Called([NoCall EXCEPT !.op = "page_sync", !.ref = crawl_id, !.url = url,
                             !.doc = doc])
    /\ LET p == PageNew(url, url, doc, crawl_id)
           r == IF p.ok THEN PageSync(db, p) ELSE [ok |-> FALSE, id |-> None, db |-> db]
       IN /\ Within(r.db)
          /\ db' = r.db
          /\ ret' = [ok |-> r.ok, id |-> r.id, rows |-> <<>>]

    /\ Recorded
AppQuery(crawl_id, selector, refused) ==
    /\ LockFree
    /\ Called([NoCall EXCEPT !.op = "query", !.ref = crawl_id, !.selector = selector,
                             !.refused = refused])
    /\ \E r \in {RunQuery(db, crawl_id, selector, refused)} :
          /\ Within(r.db)
          /\ db' = r.db
          /\ ret' = [ok |-> r.ok, id |-> r.id, rows |-> r.rows]

    /\ Recorded
AppListResultsForQuery(query_id) ==
    /\ LockFree
    /\ Called([NoCall EXCEPT !.op = "list_results_for_query", !.id = query_id])
    /\ \E r \in {ListResultsForQuery(db, query_id)} :
          ret' = [ok |-> r.ok, id |-> None, rows |-> r.rows]
    /\ db' = db

    /\ Recorded
\* Site::fetch(id, db), Crawl::fetch, PageArchive::fetch, Query::fetch,
\* ResultEntry::fetch on the locked store
FetchCall(kind, id) ==
    /\ LockFree
    /\ Called([NoCall EXCEPT !.op = "fetch", !.kind = kind, !.id = id])
    /\ \E r \in {Fetch(db, kind, id)} :
          ret' = [ok |-> r.ok, id |-> None, rows |-> r.rows]
    /\ db' = db

    /\ Recorded
AppListCrawls ==
    /\ LockFree
    /\ Called([NoCall EXCEPT !.op = "list_crawls"])
    /\ db' = db
    /\ ret' = [ok |-> TRUE, id |-> None, rows |-> FetchAll(db.crawls)]

    /\ Recorded
AppListQueries ==
    /\ LockFree
    /\ Called([NoCall EXCEPT !.op = "list_queries"])
    /\ db' = db
    /\ ret' = [ok |-> TRUE, id |-> None, rows |-> FetchAll(db.queries)]

    /\ Recorded
AppListResults ==
    /\ LockFree
    /\ Called([NoCall EXCEPT !.op = "list_results"])
    /\ db' = db
    /\ ret' = [ok |-> TRUE, id |-> None, rows |-> FetchAll(db.results)]

    /\ Recorded
\* Site::new(Some(id), domain, sitemap_url).sync(db)
SiteSyncUpdate(id, domain, sitemap_url) ==
    /\ LockFree
    /\ Called([NoCall EXCEPT !.op = "site_sync", !.id = id, !.domain = domain,
                             !.url = sitemap_url])
    /\ \E r \in {SiteUpdate(db, id, domain, sitemap_url)} :
          db' = r.db /\ ret' = [ok |-> r.ok, id |-> r.id, rows |-> <<>>]

    /\ Recorded
\* ResultEntry::new(id, page_id, selector, count).sync(db): id = None
\* inserts, an id updates
ResultSyncCall(id, page_id, selector, count) ==
    /\ LockFree
    /\ Called([NoCall EXCEPT !.op = "result_sync", !.id = id, !.ref = page_id,
                             !.selector = selector, !.count = count])
    /\ \E r \in {IF id = None THEN ResultInsert(db, page_id, selector, count)
                ELSE ResultUpdate(db, id, page_id, selector, count)} :
          /\ Within(r.db)
          /\ db' = r.db
          /\ ret' = [ok |-> r.ok, id |-> r.id, rows |-> <<>>]

    /\ Recorded
StoreNext ==
    \/ \E d \in Domains, s \in SitemapUrls : AppNewSite(d, s)
    \/ AppListSites
    \/ \E id \in ArgIds : AppDeleteSite(id)
    \/ \E id \in ArgIds : AppDeleteCrawl(id)
    \/ \E id \in ArgIds : AppDeleteQuery(id)
    \/ \E id \in ArgIds : AppDeleteResult(id)
    \/ \E id \in {None} \cup ArgIds, site_id \in ArgIds : CrawlSync(id, site_id)
    \/ \E id \in ArgIds, c \in ArgIds, sel \in StoreSelectors : QuerySyncUpdate(id, c, sel)
    \/ \E c \in {None} \cup ArgIds, p \in StorePages : PageSyncCall(c, p.url, p.doc)
    \/ \E c \in ArgIds, sel \in StoreSelectors, refused \in SUBSET ArgIds :
          AppQuery(c, sel, refused)
    \/ \E id \in ArgIds : AppListResultsForQuery(id)
    \/ \E kind \in Kinds, id \in ArgIds : FetchCall(kind, id)
    \/ AppListCrawls
    \/ AppListQueries
    \/ AppListResults
    \/ \E id \in ArgIds, d \in StoreDomains, s \in SitemapUrls : SiteSyncUpdate(id, d, s)
    \/ \E id \in {None} \cup ArgIds, p \in ArgIds, sel \in StoreSelectors,
          n \in StoreCounts : ResultSyncCall(id, p, sel, n)

\* the program is started on a store of Seeds and nothing has been called
StoreInit ==
    /\ db \in Seeds
    /\ lock = NoOne
    /\ cpc = "idle"
    /\ carg = [site_id |-> None, max_concurrent |-> 0]
    /\ csite = NoSite
    /\ curls = <<>>
    /\ cid = None
    /\ step = <<>>
    /\ outcomes = <<>>
    /\ cgone = FALSE
    /\ upc = [u \in Users |-> "idle"]
    /\ uop = [u \in Users |-> NoOp]
    /\ qpages = [u \in Users |-> <<>>]
    /\ qi = [u \in Users |-> 0]
    /\ qres = [u \in Users |-> <<>>]
    /\ ures = [u \in Users |-> "none"]
    /\ calls = 0
    /\ pre = db
    /\ call = NoCall
    /\ ret = NoRet
    /\ born = Stamped(db)
    /\ dead = [k \in Kinds |-> {}]
    /\ hreq = NoRequest
    /\ hresp = NoAnswer
    /\ hret = NoResult
    /\ chan = <<>>
    /\ gpc = "running"
    /\ gsent = <<>>
    /\ ghandled = <<>>
    /\ gcache = <<>>
    /\ gindex = <<>>

StoreSpec == StoreInit /\ [][StoreNext]_vars

\* ------------------------------------------------------------------------
\* HTTPClient on its own: get_html and get_sitemap are functions of the url
\* they are given and of what the server answers.  The client is called,
\* the server answers, the call returns, and the client is called again.
\* ------------------------------------------------------------------------
\* the urls the client is given: as they are, or with white space around
PageUrls == {"/a", " /a "}
SitemapRequestUrls == {"/sitemap.xml", " /sitemap.xml ", "/sitemap"}

\* str::trim
Trim(url) ==
    CASE url = " /a " -> "/a"
      [] url = " /sitemap.xml " -> "/sitemap.xml"
      [] OTHER -> url

\* Every answer of a server to a page request: a declared Content-Length is
\* the length of the body
PageAnswers(url) ==
    {r \in [reach : BOOLEAN, status : {200, 404}, clen : {NoLen, DocItems.mb, DocBig.mb},
            ctype : {"text/html; charset=utf-8", "application/json"},
            final_url : {url, "/moved"}, readable : BOOLEAN,
            doc : {DocItems, DocBig}] :
        r.clen # NoLen => r.clen = r.doc.mb}

\* Every answer of a server to a sitemap request
SitemapAnswers ==
    [reach : BOOLEAN, status : {200, 404}, ctype : {"application/xml", "text/html", ""},
     readable : BOOLEAN, body : SitemapBodies]

\* client.get(url).send(): the request is on its way
HttpSend(fn, url, answer) ==
    /\ hreq.st # "sent"
    /\ hreq' = [st |-> "sent", fn |-> fn, url |-> url]
    /\ hresp' = answer
    /\ hret' = NoResult
    /\ UNCHANGED <<db, lock, cgone, crawlVars, userVars, storeVars, guiVars>>

\* HTTPClient::get_html returns
HttpGetHtml ==
    /\ hreq.st = "sent" /\ hreq.fn = "get_html"
    /\ hret' = GetHtml(Trim(hreq.url), hresp)
    /\ hreq' = [hreq EXCEPT !.st = "returned"]
    /\ UNCHANGED <<hresp, db, lock, cgone, crawlVars, userVars, storeVars, guiVars>>

\* HTTPClient::get_sitemap returns
HttpGetSitemap ==
    /\ hreq.st = "sent" /\ hreq.fn = "get_sitemap"
    /\ hret' = GetSitemap(Trim(hreq.url), hresp)
    /\ hreq' = [hreq EXCEPT !.st = "returned"]
    /\ UNCHANGED <<hresp, db, lock, cgone, crawlVars, userVars, storeVars, guiVars>>

HttpNext ==
    \/ \E url \in PageUrls : \E a \in PageAnswers(Trim(url)) : HttpSend("get_html", url, a)
    \/ \E url \in SitemapRequestUrls, a \in SitemapAnswers : HttpSend("get_sitemap", url, a)
    \/ HttpGetHtml
    \/ HttpGetSitemap

HttpSpec == Init /\ [][HttpNext]_vars

\* ------------------------------------------------------------------------
\* Specification
\* ------------------------------------------------------------------------
CrawlNext ==
    \/ \E site_id \in IdArgs, limit \in 0..MaxLimit : CrawlCall(site_id, limit)
    \/ CrawlSiteLock
    \/ CrawlSiteFetch
    \/ \E resp \in SitemapResponses : CrawlSitemap(resp)
    \/ CrawlRowLock
    \/ CrawlRowSync
    \/ \E i \in Steps : StepStart(i)
    \/ \E i \in Steps : \E resp \in PageResponses(curls[i]) : StepFetched(i, resp)
    \/ \E i \in Steps : StepLock(i)
    \/ \E i \in Steps : StepSync(i)
    \/ \E i \in Steps : StepEmit(i)
    \/ CrawlReturn

UserNext ==
    \/ \E u \in Users : UserCall(u)
    \/ \E u \in Users, op \in UserOps : UserLock(u, op)
    \/ \E u \in Users : UserExec(u)
    \/ \E u \in Users : QuerySync(u)
    \/ \E u \in Users : QueryFetch(u)
    \/ \E u \in Users, io \in BOOLEAN : QueryLoop(u, io)
    \/ \E u \in Users : QueryReturn(u)

Next == CrawlNext \/ UserNext

Spec == Init /\ [][Next]_vars

\* The scheduling the runtime guarantees: a task that can run is run, a task
\* waiting for the tokio Mutex gets it once it stays free (the Mutex is in
\* fact first come first served, which is stronger), and every HTTP request
\* ends (the client has a total timeout).  Nothing obliges a caller to call.
Fairness ==
    /\ WF_vars(CrawlSiteLock)
    /\ WF_vars(CrawlRowLock)
    /\ WF_vars(\E i \in Steps : StepLock(i))
    /\ \A u \in Users : WF_vars(\E op \in UserOps : UserLock(u, op))
    /\ WF_vars(CrawlSiteFetch \/ CrawlRowSync \/ CrawlReturn)
    /\ WF_vars(\E resp \in SitemapResponses : CrawlSitemap(resp))
    /\ WF_vars(\E i \in Steps : StepStart(i))
    /\ WF_vars(\E i \in Steps : \E resp \in PageResponses(curls[i]) : StepFetched(i, resp))
    /\ WF_vars(\E i \in Steps : StepSync(i) \/ StepEmit(i))
    /\ WF_vars(\E u \in Users : UserExec(u) \/ QuerySync(u) \/ QueryFetch(u)
                                  \/ (\E io \in BOOLEAN : QueryLoop(u, io))
                                  \/ QueryReturn(u))

FairSpec == Init /\ [][Next]_vars /\ Fairness

\* ------------------------------------------------------------------------
\* Properties
\* ------------------------------------------------------------------------
Returned == cpc \in {"ret_ok", "ret_err"}

OutcomesOf(i) == {k \in 1..Len(outcomes) : outcomes[k].idx = i}
NumSucceeded == Cardinality({k \in 1..Len(outcomes) : outcomes[k].kind = "PageSucceeded"})
NumFailed == Cardinality({k \in 1..Len(outcomes) : outcomes[k].kind = "PageFailed"})

\* rows of pages tagged with the id of the running crawl
CrawlPages == {p \in db.pages : p.crawl_id = cid}
\* futures of the call whose INSERT INTO pages went through
Wrote == {i \in Steps : step[i].row # None}

\* C1: new_crawl calls on_update exactly once for every entry of the sitemap,
\* duplicates included: never twice for an entry, and once for each by the
\* time it returns Ok
C1_OneOutcomePerUrl ==
    /\ \A i \in Steps : Cardinality(OutcomesOf(i)) <= 1
    /\ cpc = "ret_ok" =>
          /\ Len(outcomes) = Len(curls)
          /\ \A i \in 1..Len(curls) :
                \E k \in 1..Len(outcomes) :
                    /\ outcomes[k].idx = i
                    /\ outcomes[k].url = curls[i]
                    /\ outcomes[k].kind \in {"PageSucceeded", "PageFailed"}

\* a sitemap that lists the same url twice was crawled to the end
C1_Witness ==
    /\ cpc = "ret_ok"
    /\ Len(curls) = 2
    /\ curls[1] = curls[2]
    /\ Len(outcomes) = 2

\* C2 as claimed: at the moment new_crawl returns, the pages rows tagged with
\* its crawl id are as many as the PageSucceeded outcomes
C2_PagesEqualSucceededAtReturn ==
    [][(cpc = "run" /\ cpc' = "ret_ok") =>
          Cardinality(CrawlPages) = NumSucceeded]_vars

\* C2 amended: when new_crawl has returned, the rows its futures inserted are
\* as many as the PageSucceeded outcomes, and unless a delete removed the
\* Crawl row they are the rows of pages tagged with its crawl id
C2_InsertedEqualSucceeded ==
    cpc = "ret_ok" =>
        /\ Cardinality(Wrote) = NumSucceeded
        /\ ~cgone => {step[i].row : i \in Wrote} = Ids(CrawlPages)

\* Scenario A: two urls, one fetch fails: 1 succeeded, 1 failed, 1 row
C2_Witness ==
    /\ cpc = "ret_ok"
    /\ ~cgone
    /\ Len(curls) = 2
    /\ NumSucceeded = 1
    /\ NumFailed = 1
    /\ \E k \in 1..Len(outcomes) : outcomes[k].reason = "status"
    /\ Cardinality(CrawlPages) = 1

\* C3 as claimed: never more than max_concurrent futures of
\* process_single_page are started and not finished
C3_ActiveWithinLimit ==
    cpc = "run" => Cardinality(Active) <= carg.max_concurrent

\* C4: once the Crawl row is written new_crawl never returns Err, and it
\* returns Ok only when every url has its outcome, failed or not
C4_OkAfterSetup ==
    /\ cid # None => cpc \in {"run", "ret_ok"}
    /\ cpc = "ret_ok" => \A i \in 1..Len(curls) : OutcomesOf(i) # {}

\* every url of a two-url sitemap failed and the call returned Ok
C4_Witness ==
    /\ cpc = "ret_ok"
    /\ Len(curls) = 2
    /\ NumFailed = 2

\* no future of the call was started
NothingFetched == \A i \in Steps : step[i].st = "pending"

\* C5: a call that fails in Site::fetch, get_sitemap or Sitemap::new returns
\* Err having written no Crawl row, started no page fetch and emitted no
\* outcome, and none of its steps up to there changes the store
C5_SetupFailureLeavesNoTrace ==
    /\ [](cpc = "ret_err" => cid = None /\ outcomes = <<>> /\ NothingFetched)
    /\ [][(cpc \in {"site_wait", "site_fetch", "sitemap"} /\ cpc' # cpc) =>
             (db' = db /\ cid' = None)]_vars

\* the site was found, the sitemap request or its parse failed
C5_Witness ==
    /\ cpc = "ret_err"
    /\ csite.id # None
    /\ db.sites # {}
    /\ db.crawls = {}

\* C6: a future whose process_single_page failed reports PageFailed with its
\* url and the reason, and has inserted no row
C6_FailedStepWritesNothing ==
    \A i \in Steps :
        /\ step[i].err # "" => step[i].row = None
        /\ (step[i].st = "done" /\ step[i].err # "") =>
              \E k \in OutcomesOf(i) :
                  /\ outcomes[k].kind = "PageFailed"
                  /\ outcomes[k].url = curls[i]
                  /\ outcomes[k].reason = step[i].err
        /\ \A k \in OutcomesOf(i) :
              outcomes[k].kind = "PageFailed" => step[i].row = None

\* a store write failed (the Crawl row was deleted meanwhile) and was reported
C6_Witness ==
    \E k \in 1..Len(outcomes) :
        /\ outcomes[k].kind = "PageFailed"
        /\ outcomes[k].reason = "store"
        /\ CrawlPages = {}

\* C7: PageSucceeded is reported for a future only after its row was inserted
C7_WriteBeforeSucceeded ==
    \A k \in 1..Len(outcomes) :
        outcomes[k].kind = "PageSucceeded" => step[outcomes[k].idx].row # None

\* a PageSucceeded was reported while another future is still fetching
C7_Witness ==
    /\ \E k \in 1..Len(outcomes) : outcomes[k].kind = "PageSucceeded"
    /\ \E i \in Steps : step[i].st = "fetching"

\* callers that are inside a store operation
UsersInStore == {u \in Users : upc[u] \in {"exec", "q_sync", "q_fetch", "q_loop"}}
StepsInStore == {i \in Steps : step[i].st = "locked"}
SetupInStore == IF cpc \in {"site_fetch", "crawl_sync"} THEN 1 ELSE 0
NumInStore == Cardinality(UsersInStore) + Cardinality(StepsInStore) + SetupInStore

\* C8: at most one caller is inside a store operation, and it holds the lock
C8_StoreMutex ==
    /\ NumInStore <= 1
    /\ NumInStore = 1 => lock # NoOne
    /\ \A u \in UsersInStore : lock = u

\* a query is inside the store while a page future waits for the lock
C8_Witness ==
    /\ \E u \in Users : upc[u] = "q_loop"
    /\ \E i \in Steps : step[i].st = "lockwait"

\* no facade call is in progress and the lock is free
Quiet ==
    /\ cpc \in {"idle", "ret_ok", "ret_err"}
    /\ \A u \in Users : upc[u] = "idle"
    /\ lock = NoOne

\* C9: whenever calls are in progress, a state follows in which all of them
\* have returned and the lock is free
C9_CallsReturn == (~Quiet) ~> Quiet

\* a new_crawl and a query that ran against its crawl have both returned
C9_Witness ==
    /\ Quiet
    /\ cpc = "ret_ok"
    /\ \E q \in db.queries : q.crawl_id = cid

\* the number of elements the selector matches; none if it does not parse
TrueCount(html, selector) ==
    IF SelectorParses(selector) THEN SelectorCount(html, selector) ELSE 0

\* C10: when the loop of query is over, the call has inserted a results row
\* for a page of the crawl exactly if the selector matches on that page
C10_EntryIffMatches ==
    \A u \in Users :
        (upc[u] = "q_loop" /\ qi[u] > Len(qpages[u])) =>
            LET new == {e \in db.results :
                          \E k \in 1..Len(qres[u]) : qres[u][k].id = e.id}
            IN /\ \A e \in new : e.count > 0 /\ e.selector = uop[u].selector
               /\ \A k \in 1..Len(qpages[u]) :
                     (\E e \in new : e.page_id = qpages[u][k].id)
                         <=> TrueCount(qpages[u][k].html_content, uop[u].selector) > 0
               /\ \A e \in new : \E k \in 1..Len(qpages[u]) : e.page_id = qpages[u][k].id
               /\ (\A k \in 1..Len(qpages[u]) :
                      TrueCount(qpages[u][k].html_content, uop[u].selector) = 0)
                         => new = {} /\ qres[u] = <<>>

\* Scenario B: div.item over a page with three of them and a page with none
C10_Witness ==
    \E u \in Users :
        /\ upc[u] = "q_loop"
        /\ qi[u] > Len(qpages[u])
        /\ Len(qpages[u]) = 2
        /\ uop[u].selector = "div.item"
        /\ \E e \in db.results : e.count = 3
        /\ Cardinality(db.results) = 1

\* ------------------------------------------------------------------------
\* Properties of the store calls (StoreSpec)
\* ------------------------------------------------------------------------
RECURSIVE SumCounts(_)
SumCounts(rows) ==
    IF rows = {} THEN 0
    ELSE LET r == CHOOSE x \in rows : TRUE IN r.count + SumCounts(rows \ {r})

RECURSIVE SumSeq(_)
SumSeq(entries) ==
    IF entries = <<>> THEN 0 ELSE Head(entries).count + SumSeq(Tail(entries))

PagesOf(d, crawl_id) == {p \in d.pages : p.crawl_id = crawl_id}

RECURSIVE TrueSumOver(_, _)
TrueSumOver(pages, selector) ==
    IF pages = {} THEN 0
    ELSE LET p == CHOOSE x \in pages : TRUE
         IN TrueCount(p.html_content, selector) + TrueSumOver(pages \ {p}, selector)

\* the sum of the true match counts of the selector over the pages of a crawl
TrueSum(d, crawl_id, selector) == TrueSumOver(PagesOf(d, crawl_id), selector)

\* the results rows of a (crawl, selector) pair
ResultsOf(d, crawl_id, selector) ==
    {r \in d.results : /\ r.selector = selector
                       /\ \E p \in PagesOf(d, crawl_id) : p.id = r.page_id}

\* the last store call was Application::query and it returned Ok
QueryReturnedOk == call.op = "query" /\ ret.ok

\* the entries of a returned list that carry an id
Stored(entries) == {entries[k] : k \in {j \in 1..Len(entries) : entries[j].id # None}}

\* C11 as claimed: after a query of (crawl, selector) the counts of all results
\* rows of the pair sum to the true match counts over the pages of the crawl
C11_PersistedSumEqualsTrueSum ==
    QueryReturnedOk =>
        SumCounts(ResultsOf(db, call.ref, call.selector))
            = TrueSum(db, call.ref, call.selector)

\* C11 amended: the counts of the entries one query returns sum to the true
\* match counts over the pages of the crawl at that moment; the rows it adds
\* are the returned entries whose INSERT went through, and the rows of
\* earlier executions stay
C11_ReturnedSumEqualsTrueSum ==
    QueryReturnedOk =>
        /\ SumSeq(ret.rows) = TrueSum(pre, call.ref, call.selector)
        /\ db.pages = pre.pages
        /\ pre.results \subseteq db.results
        /\ db.results \ pre.results = Stored(ret.rows)
        /\ SumCounts(ResultsOf(db, call.ref, call.selector))
              = SumCounts(ResultsOf(pre, call.ref, call.selector))
                  + SumCounts(Stored(ret.rows))

\* a second execution of div.item on the crawl: 3 true matches, rows sum to 6
C11_Witness ==
    /\ QueryReturnedOk
    /\ TrueSum(pre, call.ref, call.selector) = 3
    /\ SumCounts(ResultsOf(pre, call.ref, call.selector)) = 3
    /\ SumCounts(ResultsOf(db, call.ref, call.selector)) = 6

\* the Query rows of the (crawl, selector) pair of a query
SameKey(d, q) == {x \in d.queries : x.crawl_id = q.crawl_id /\ x.selector = q.selector}

Range(seq) == {seq[k] : k \in 1..Len(seq)}

\* C12: a query that returns Ok adds one Query row under an id no row has and
\* leaves every earlier row as it is, also one of the same (crawl, selector);
\* and list_results_for_query returns the same rows for every Query row of
\* the same (crawl, selector)
C12_TwoRowsSameResults ==
    /\ QueryReturnedOk =>
          /\ ret.id \notin Ids(pre.queries)
          /\ db.queries = pre.queries \cup
                {[id |-> ret.id, crawl_id |-> call.ref, selector |-> call.selector]}
          /\ Cardinality(db.queries) = Cardinality(pre.queries) + 1
    /\ (call.op = "list_results_for_query" /\ ret.ok) =>
          \A q \in SameKey(db, QueryRowFetch(db, call.id).query) :
              /\ ListResultsForQuery(db, q.id).ok
              /\ Range(ListResultsForQuery(db, q.id).rows) = Range(ret.rows)

\* the same query ran twice, and the results were then listed for one of the
\* two Query rows
C12_Witness ==
    /\ call.op = "list_results_for_query"
    /\ ret.ok
    /\ Len(ret.rows) = 2
    /\ Cardinality(SameKey(db, QueryRowFetch(db, call.id).query)) = 2

\* the results rows list_results_for_query is to return for a Query row, each
\* with the url of its page
Expected(d, q) ==
    {[entry |-> r, page_url |-> p.url] :
        <<r, p>> \in {x \in d.results \X d.pages :
                         /\ x[1].page_id = x[2].id
                         /\ x[2].crawl_id = q.crawl_id
                         /\ x[1].selector = q.selector}}

\* C13: list_results_for_query returns, each once, the results rows of the
\* crawl and selector of the Query row, with the url of the page of each
C13_ExactlyTheRowsOfTheKey ==
    (call.op = "list_results_for_query" /\ ret.ok) =>
        /\ call.id \in Ids(db.queries)
        /\ Range(ret.rows) = Expected(db, QueryRowFetch(db, call.id).query)
        /\ Len(ret.rows) = Cardinality(Range(ret.rows))

\* rows of another crawl are in the store and are not returned
C13_Witness ==
    /\ call.op = "list_results_for_query"
    /\ ret.ok
    /\ ret.rows # <<>>
    /\ \E r \in db.results :
          /\ r.selector = QueryRowFetch(db, call.id).query.selector
          /\ \A k \in 1..Len(ret.rows) : ret.rows[k].entry # r

\* C14 as claimed: the list a query returns is the set of rows the call
\* added to results, and every entry of it has an id
C14_ReturnedAreTheNewRows ==
    QueryReturnedOk =>
        /\ \A k \in 1..Len(ret.rows) :
              ret.rows[k].id # None /\ ret.rows[k] \in db.results
        /\ db.results \ pre.results = Range(ret.rows)

\* the rows rooted under a set of crawls
PagesUnder(d, crawls) == {p \in d.pages : p.crawl_id \in Ids(crawls)}
QueriesUnder(d, crawls) == {q \in d.queries : q.crawl_id \in Ids(crawls)}
ResultsUnder(d, crawls) == {r \in d.results : r.page_id \in Ids(PagesUnder(d, crawls))}
CrawlsOfSite(d, site_id) == {c \in d.crawls : c.site_id = site_id}

\* the store without a set of crawls and all that is rooted under them
WithoutCrawls(d, crawls) ==
    [sites |-> d.sites,
     crawls |-> d.crawls \ crawls,
     pages |-> d.pages \ PagesUnder(d, crawls),
     queries |-> d.queries \ QueriesUnder(d, crawls),
     results |-> d.results \ ResultsUnder(d, crawls)]

\* the last store call was a delete of that kind on a row that was there
Deleted(op, table) == call.op = op /\ call.id \in Ids(table)

\* C16: after delete_site on a site of the store, the site, its crawls and
\* the pages, queries and results under them are gone, nothing refers to
\* them any more, and every other row is as it was
C16_DeleteSiteCascades ==
    Deleted("delete_site", pre.sites) =>
        /\ ret.ok
        /\ call.id \notin Ids(db.sites)
        /\ CrawlsOfSite(db, call.id) = {}
        /\ db.pages \cap PagesUnder(pre, CrawlsOfSite(pre, call.id)) = {}
        /\ db.queries \cap QueriesUnder(pre, CrawlsOfSite(pre, call.id)) = {}
        /\ db.results \cap ResultsUnder(pre, CrawlsOfSite(pre, call.id)) = {}
        /\ db = [WithoutCrawls(pre, CrawlsOfSite(pre, call.id))
                   EXCEPT !.sites = {x \in pre.sites : x.id # call.id}]

\* every table lost a row and kept a row
LostAndKept(tables) ==
    \A t \in tables :
        /\ \E r \in pre[t] : r \notin db[t]
        /\ \E r \in pre[t] : r \in db[t]

\* a site with a crawl, a page, a query and a result was deleted next to
\* another site that has all of these
C16_Witness ==
    /\ Deleted("delete_site", pre.sites)
    /\ LostAndKept({"sites", "crawls", "pages", "queries", "results"})

\* C17: after delete_crawl on a crawl of the store, its pages and queries and
\* the results of its pages are gone, and the sites, the other crawls and all
\* rows under those are as they were
C17_DeleteCrawlCascades ==
    Deleted("delete_crawl", pre.crawls) =>
        LET gone == {c \in pre.crawls : c.id = call.id}
        IN /\ ret.ok
           /\ PagesUnder(db, gone) = {} /\ QueriesUnder(db, gone) = {}
           /\ db.results \cap ResultsUnder(pre, gone) = {}
           /\ db.sites = pre.sites
           /\ db.crawls = pre.crawls \ gone
           /\ \A c \in pre.crawls \ gone :
                 /\ PagesUnder(db, {c}) = PagesUnder(pre, {c})
                 /\ QueriesUnder(db, {c}) = QueriesUnder(pre, {c})
                 /\ ResultsUnder(db, {c}) = ResultsUnder(pre, {c})
           /\ db = WithoutCrawls(pre, gone)

\* a crawl with a page, a query and a result was deleted, a sibling crawl of
\* the same site has all of these
C17_Witness ==
    /\ Deleted("delete_crawl", pre.crawls)
    /\ LostAndKept({"crawls", "pages", "queries", "results"})
    /\ \E c \in pre.crawls, x \in db.crawls : c.id = call.id /\ c.site_id = x.site_id

\* every reference of a row is to a row of the store
RefIntegrity(d) ==
    /\ \A c \in d.crawls : c.site_id \in Ids(d.sites)
    /\ \A p \in d.pages : p.crawl_id \in Ids(d.crawls)
    /\ \A q \in d.queries : q.crawl_id \in Ids(d.crawls)
    /\ \A r \in d.results : r.page_id \in Ids(d.pages)

\* C18: in every state of the store, whatever inserts, updates and deletes
\* were called, every Crawl refers to a Site of the store, every page and
\* Query to a Crawl, every result to a page; a call that is refused changes
\* nothing
C18_ReferentialIntegrity ==
    /\ RefIntegrity(db)
    /\ ~ret.ok => db = pre

\* an update that moves a Crawl to a site that is not there was refused, on
\* a store with rows in every table
C18_Witness ==
    /\ ~ret.ok
    /\ call.op = "crawl_sync"
    /\ call.id \in Ids(pre.crawls)
    /\ call.ref \notin Ids(pre.sites)
    /\ db.queries # {}
    /\ db.results # {}

\* the records of list_sites that match a (domain, sitemap_url) pair
Matching(d, domain, sitemap_url) ==
    {k \in 1..Len(FetchAll(d.sites)) :
        /\ FetchAll(d.sites)[k].domain = domain
        /\ FetchAll(d.sites)[k].sitemap_url = sitemap_url}

\* C19 as claimed: after new_site(domain, url) returned Ok, list_sites has
\* exactly one record of that domain and sitemap_url, under an id that no row
\* had before the call
C19_ExactlyOneMatchingSite ==
    (call.op = "new_site" /\ ret.ok) =>
        /\ Cardinality(Matching(db, call.domain, call.url)) = 1
        /\ \A k \in Matching(db, call.domain, call.url) :
              /\ FetchAll(db.sites)[k].id = ret.id
              /\ ret.id \notin Ids(pre.sites)

\* what a delete of each kind is to remove
Removes(d, op, id) ==
    CASE op = "delete_site" ->
           [WithoutCrawls(d, CrawlsOfSite(d, id)) EXCEPT !.sites = {x \in @ : x.id # id}]
      [] op = "delete_crawl" -> WithoutCrawls(d, {c \in d.crawls : c.id = id})
      [] op = "delete_query" -> [d EXCEPT !.queries = {x \in @ : x.id # id}]
      [] op = "delete_result" -> [d EXCEPT !.results = {x \in @ : x.id # id}]

TableOf(op) ==
    CASE op = "delete_site" -> "sites"
      [] op = "delete_crawl" -> "crawls"
      [] op = "delete_query" -> "queries"
      [] op = "delete_result" -> "results"

Deletes == {"delete_site", "delete_crawl", "delete_query", "delete_result"}

\* C20: a delete of a row of the store removes that row and the rows that
\* depend on it, every other row of every table stays as it was, and a scan
\* of the table no longer yields the id
C20_DeleteRemovesRowAndDependents ==
    (call.op \in Deletes /\ call.id \in Ids(pre[TableOf(call.op)])) =>
        /\ ret.ok
        /\ db = Removes(pre, call.op, call.id)
        /\ \A k \in 1..Len(FetchAll(db[TableOf(call.op)])) :
              FetchAll(db[TableOf(call.op)])[k].id # call.id

\* a Query row was deleted, another Query row and the results stay
C20_Witness ==
    /\ call.op = "delete_query"
    /\ call.id \in Ids(pre.queries)
    /\ db.queries # {}
    /\ db.results = pre.results
    /\ db.results # {}

\* ------------------------------------------------------------------------
\* C21: a fetch by an id the table does not hold fails and returns no
\* record, for every kind of record; list_results_for_query of a query id
\* the queries table does not hold (never written, or deleted) fails and
\* returns no list.
\* ------------------------------------------------------------------------
FetchOfAbsent ==
    /\ call.op = "fetch"
    /\ call.id \notin Ids(Table(pre, call.kind))

ListOfAbsent ==
    /\ call.op = "list_results_for_query"
    /\ call.id \notin Ids(pre.queries)

C21_FetchOfAbsentIdFails ==
    (FetchOfAbsent \/ ListOfAbsent) => (~ret.ok /\ ret.rows = <<>>)

\* the query whose results are asked for was deleted: the results it wrote
\* are still in the table, and the call fails all the same
C21_Witness ==
    /\ ListOfAbsent
    /\ pre.results # {}
    /\ call.id \in dead["query"]
    /\ ~ret.ok

\* ------------------------------------------------------------------------
\* C22: a delete, or a sync of a record that carries an id, of a row the
\* table does not hold fails, and the store is as it was before.
\* ------------------------------------------------------------------------
\* the kind of record a delete or a sync is about
KindOf(op) ==
    CASE op \in {"delete_site", "site_sync"} -> "site"
      [] op \in {"delete_crawl", "crawl_sync"} -> "crawl"
      [] op \in {"delete_query", "query_sync"} -> "query"
      [] op \in {"delete_result", "result_sync"} -> "result"

\* the last call was a delete or an update of a row that is not there
OnAbsentRow ==
    /\ call.op \in {"delete_site", "delete_crawl", "delete_query", "delete_result",
                    "site_sync", "crawl_sync", "query_sync", "result_sync"}
    /\ call.id # None
    /\ call.id \notin Ids(Table(pre, KindOf(call.op)))

C22_AbsentRowIsAnError == OnAbsentRow => (~ret.ok /\ db = pre)

\* ------------------------------------------------------------------------
\* C23: whatever was inserted and deleted before, fetch_all of a table
\* returns every row the table holds, each once, a row that was inserted
\* earlier before a row that was inserted later.
\* ------------------------------------------------------------------------
KindOfList(op) ==
    CASE op = "list_sites" -> "site"
      [] op = "list_crawls" -> "crawl"
      [] op = "list_queries" -> "query"
      [] op = "list_results" -> "result"

Listed == call.op \in {"list_sites", "list_crawls", "list_queries", "list_results"}

\* stamp a is of an earlier insert than stamp b
Before(a, b) == a.at < b.at \/ (a.at = b.at /\ a.n < b.n)

C23_FetchAllInCreationOrder ==
    Listed =>
        LET k == KindOfList(call.op)
        IN /\ ret.ok
           /\ Range(ret.rows) = Table(db, k)
           /\ Len(ret.rows) = Cardinality(Table(db, k))
           /\ \A i, j \in 1..Len(ret.rows) :
                 i < j => Before(born[k][ret.rows[i].id], born[k][ret.rows[j].id])

\* a row was deleted, a later insert was given its id, and the table is
\* listed with that row and an older one in it
C23_Witness ==
    /\ Listed
    /\ Len(ret.rows) >= 2
    /\ \E i \in 1..Len(ret.rows) :
          /\ ret.rows[i].id \in dead[KindOfList(call.op)]
          /\ born[KindOfList(call.op)][ret.rows[i].id].at > 0

\* ------------------------------------------------------------------------
\* C24: a sync of a record without id adds one row and sets the id of the
\* record to the id of that row; a sync of a record with the id of a row adds
\* no row, keeps the id, and leaves in the row the fields of the record
\* (Site: domain, sitemap_url; Crawl: site_id; Query: crawl_id, selector;
\* ResultEntry: page_id, selector, count).
\* ------------------------------------------------------------------------
KindOfSync(op) ==
    CASE op \in {"new_site", "site_sync"} -> "site"
      [] op = "crawl_sync" -> "crawl"
      [] op = "query_sync" -> "query"
      [] op = "result_sync" -> "result"

\* the last call was a sync of a record and it returned Ok
Synced ==
    /\ call.op \in {"new_site", "site_sync", "crawl_sync", "query_sync", "result_sync"}
    /\ ret.ok

\* the fields of a row of kind k the caller sets
Settable(k, row) ==
    CASE k = "site" -> [domain |-> row.domain, sitemap_url |-> row.sitemap_url]
      [] k = "crawl" -> [site_id |-> row.site_id]
      [] k = "query" -> [crawl_id |-> row.crawl_id, selector |-> row.selector]
      [] k = "result" -> [page_id |-> row.page_id, selector |-> row.selector,
                          count |-> row.count]

\* the same fields of the record the call was made on
Given(k) ==
    CASE k = "site" -> [domain |-> call.domain, sitemap_url |-> call.url]
      [] k = "crawl" -> [site_id |-> call.ref]
      [] k = "query" -> [crawl_id |-> call.ref, selector |-> call.selector]
      [] k = "result" -> [page_id |-> call.ref, selector |-> call.selector,
                          count |-> call.count]

C24_SyncInsertsOrUpdates ==
    Synced =>
        LET k == KindOfSync(call.op)
        IN /\ call.id = None =>
                 /\ ret.id \notin Ids(Table(pre, k))
                 /\ \E row \in Table(db, k) :
                       /\ row.id = ret.id
                       /\ Table(db, k) = Table(pre, k) \cup {row}
           /\ call.id \in Ids(Table(pre, k)) =>
                 /\ ret.id = call.id
                 /\ Ids(Table(db, k)) = Ids(Table(pre, k))
                 /\ \A row \in Table(db, k) :
                       row.id = call.id => Settable(k, row) = Given(k)

\* ------------------------------------------------------------------------
\* C25: get_html returns (final url, body) only when the status is a
\* success, the content type says HTML and the body is no larger than 10 MB;
\* in every other case it fails, a body over 10 MB whose length the server
\* did not declare included.
\* ------------------------------------------------------------------------
PageReturned == hreq.st = "returned" /\ hreq.fn = "get_html"

C25_BodyOnlyWhenSmallHtml ==
    (PageReturned /\ hret.ok) =>
        /\ hresp.reach
        /\ IsSuccess(hresp.status)
        /\ ContainsTextHtml(hresp.ctype)
        /\ hresp.doc.mb <= PAGE_SIZE_LIMIT_MB
        /\ hret.html = hresp.doc
        /\ hret.final_url = hresp.final_url

\* ------------------------------------------------------------------------
\* C26: get_sitemap fails when the server is not reached, and fails when the
\* content type does not say XML and the url does not end in .xml; it
\* returns the text of the response when the content type says XML or the
\* url ends in .xml.
\* ------------------------------------------------------------------------
SitemapReturned == hreq.st = "returned" /\ hreq.fn = "get_sitemap"

\* one of the two: the content type says XML, the url asked for ends in .xml
SaysXml == ContainsXml(hresp.ctype) \/ EndsWithXml(Trim(hreq.url))

C26_TextWhenXml ==
    SitemapReturned =>
        /\ ~hresp.reach => ~hret.ok
        /\ ~SaysXml => ~hret.ok
        /\ (hresp.reach /\ SaysXml) => (hret.ok /\ hret.body = hresp.body)

\* C26, amended: ... it returns the text of the response when the content
\* type says XML or the url ends in .xml, and the body of the response is
\* read to its end; when reading the body fails, the call fails.
C26_TextWhenXmlAndRead ==
    SitemapReturned =>
        /\ ~hresp.reach => ~hret.ok
        /\ ~SaysXml => ~hret.ok
        /\ (hresp.reach /\ SaysXml /\ hresp.readable) =>
              (hret.ok /\ hret.body = hresp.body)
        /\ (hresp.reach /\ ~hresp.readable) => ~hret.ok

\* the server answers 404 with an HTML page to a url that ends in .xml, and
\* the page is returned as the sitemap
C26_Witness ==
    /\ SitemapReturned
    /\ hresp.reach /\ hresp.readable
    /\ ~ContainsXml(hresp.ctype) /\ EndsWithXml(Trim(hreq.url))
    /\ ~IsSuccess(hresp.status)
    /\ hret.ok /\ hret.body = hresp.body

\* ------------------------------------------------------------------------
\* C27: the sync of a page that has no crawl_id fails and writes no row:
\* the store is as it was before.
\* ------------------------------------------------------------------------
OrphanPageSynced == call.op = "page_sync" /\ call.ref = None

C27_PageWithoutCrawlIsRefused == OrphanPageSynced => (~ret.ok /\ db = pre)

\* the page parses and there are crawls it could have belonged to
C27_Witness ==
    /\ OrphanPageSynced
    /\ PageNew(call.url, call.url, call.doc, call.ref).ok
    /\ pre.crawls # {}
    /\ ~ret.ok
    /\ db.pages = pre.pages

\* ------------------------------------------------------------------------
\* C28: new_crawl does not hold the lock while a request of its own is on
\* its way: not while the sitemap is fetched, and when the lock is held by
\* the call while a page is fetched, it is held by another step than the one
\* that fetches.  A page of one step can be on its way while another step
\* holds the lock.
\* ------------------------------------------------------------------------
\* the step that holds the lock
Holder(i) == lock = CrawlTask /\ step[i].st = "locked"

C28_NoLockAcrossRequest ==
    /\ cpc = "sitemap" => lock # CrawlTask
    /\ lock = CrawlTask =>
          (cpc \in {"site_fetch", "crawl_sync"} \/ \E j \in Steps : step[j].st = "locked")
    /\ \A i \in Steps :
          (step[i].st = "fetching" /\ lock = CrawlTask) =>
              \E j \in Steps \ {i} : Holder(j)

\* one page is being fetched while the step of another page writes its row
C28_Witness ==
    \E i, j \in Steps :
        /\ i # j
        /\ step[i].st = "fetching"
        /\ Holder(j)

\* ------------------------------------------------------------------------
\* C29: a facade call holds the lock for one store operation at a time:
\* between two store operations of the same call, those of query included,
\* the lock is released.
\* ------------------------------------------------------------------------
\* the crawl is in one of its store operations
CrawlInStoreOp ==
    cpc \in {"site_fetch", "crawl_sync"} \/ \E j \in Steps : step[j].st = "locked"

\* the query of user u has written its Query row and has not read the pages
BetweenQueryOps(u) == upc[u] = "q_fetch"

C29_LockReleasedBetweenOps ==
    /\ \A u \in Users : BetweenQueryOps(u) => lock # u
    /\ ~CrawlInStoreOp => lock # CrawlTask

\* C29, amended: a facade call other than new_crawl takes the lock once and
\* holds it until it returns, across all the store operations of query; only
\* new_crawl gives the lock back between its store operations.
C29_LockHeldForWholeCall ==
    /\ \A u \in Users :
          /\ upc[u] \in {"exec", "q_sync", "q_fetch", "q_loop"} => lock = u
          /\ upc[u] \in {"idle", "wait"} => lock # u
    /\ lock = CrawlTask <=> CrawlInStoreOp

\* a query is between its store operations and holds the lock, and a step
\* of the crawl waits for the lock to write its page
C29_Witness ==
    \E u \in Users :
        /\ BetweenQueryOps(u)
        /\ lock = u
        /\ \E j \in Steps : step[j].st = "lockwait"

\* ------------------------------------------------------------------------
\* C30: new_crawl writes its Crawl row before the first page fetch begins;
\* no page fetch is started while the crawl has no row in the store; a setup
\* that succeeds adds exactly one Crawl row.
\* ------------------------------------------------------------------------
\* get_html of step i is called in this step of the program
FetchStarts(i) == step[i].st = "pending" /\ step'[i].st = "fetching"

\* the Crawl row is written when the setup succeeds, there and nowhere else
\* in the call, and it is one row
OneCrawlRow ==
    /\ (cpc = "crawl_sync" /\ cpc' = "run") =>
          /\ cid' \notin Ids(db.crawls)
          /\ db'.crawls = db.crawls \cup
                {[id |-> cid', site_id |-> carg.site_id, started_at |-> Now]}
    /\ (lock = CrawlTask /\ ~(cpc = "crawl_sync" /\ cpc' = "run")) =>
          db'.crawls = db.crawls

C30_RowInStoreWhenFetchStarts ==
    [][/\ \A i \in Steps : FetchStarts(i) => cid \in Ids(db.crawls)
       /\ OneCrawlRow]_vars

\* C30, amended: ... no page fetch is started before the Crawl row of the
\* call was written; the row is in the store when a fetch starts unless a
\* delete_crawl or delete_site has removed it since ...
C30_RowWrittenBeforeFetchStarts ==
    [][/\ \A i \in Steps :
             FetchStarts(i) => (cid # None /\ (cid \in Ids(db.crawls) \/ cgone))
       /\ OneCrawlRow]_vars

\* a page is being fetched and the row of the crawl is the one Crawl row of
\* the site
C30_Witness ==
    /\ cpc = "run"
    /\ \E i \in Steps : step[i].st = "fetching"
    /\ {c \in db.crawls : c.site_id = carg.site_id} =
          {[id |-> cid, site_id |-> carg.site_id, started_at |-> Now]}

\* ------------------------------------------------------------------------
\* C31: in one crawl every occurrence of a url in the list is fetched once:
\* its step starts its fetch from pending and never comes back to pending or
\* to fetching, whether it failed or not.
\* ------------------------------------------------------------------------
\* how far a step is
Rank(st) ==
    CASE st = "pending" -> 0
      [] st = "fetching" -> 1
      [] st = "lockwait" -> 2
      [] st = "locked" -> 3
      [] st = "emit" -> 4
      [] st = "done" -> 5

\* step i has reported PageFailed
EmittedFailed(i) ==
    \E k \in 1..Len(outcomes) : outcomes[k].idx = i /\ outcomes[k].kind = "PageFailed"

C31_FetchedOnce ==
    [][\A i \in Steps :
          /\ i \in 1..Len(step') => Rank(step'[i].st) >= Rank(step[i].st)
          /\ step[i].st = "pending" => step'[i].st \in {"pending", "fetching"}
          /\ EmittedFailed(i) => step'[i].st = "done"]_vars

\* the call has returned, a step had failed and every step is done
C31_Witness ==
    /\ cpc = "ret_ok"
    /\ Len(step) >= 2
    /\ \E i \in Steps : EmittedFailed(i)
    /\ \A i \in Steps : step[i].st = "done"

\* ------------------------------------------------------------------------
\* C32: started_at of a Crawl row is the time of its insert, and no call
\* changes it afterwards: not a sync of the crawl with its id, which changes
\* site_id alone.
\* ------------------------------------------------------------------------
\* the row of table rows with this id
RowOf(rows, id) == CHOOSE r \in rows : r.id = id

C32_StartedAtIsKept ==
    /\ \A c \in db.crawls :
          c.id \in Ids(pre.crawls) =>
              /\ c.started_at = RowOf(pre.crawls, c.id).started_at
              /\ (c # RowOf(pre.crawls, c.id) =>
                     (call.op = "crawl_sync" /\ call.id = c.id /\ c.site_id = call.ref))
    /\ (call.op = "crawl_sync" /\ call.id = None /\ ret.ok) =>
          RowOf(db.crawls, ret.id).started_at = Clock(calls)

\* a crawl that was started before this call is moved to another site
C32_Witness ==
    /\ call.op = "crawl_sync"
    /\ call.id \in Ids(pre.crawls) /\ call.id \in Ids(db.crawls)
    /\ ret.ok
    /\ RowOf(db.crawls, call.id).site_id # RowOf(pre.crawls, call.id).site_id
    /\ RowOf(db.crawls, call.id).started_at # Clock(calls)

\* ------------------------------------------------------------------------
\* C33: a row of pages, once written, keeps its crawl_id, url, final_url and
\* html_content under every call; the table changes by the insert of one new
\* row or by a delete that cascades, and in no other way; a page that is
\* written twice is two rows.
\* ------------------------------------------------------------------------
\* what a page row holds, its id apart
Content(p) == [crawl_id |-> p.crawl_id, url |-> p.url, final_url |-> p.final_url,
               html_content |-> p.html_content]

C33_PagesAppendOnly ==
    /\ \A p \in db.pages : p.id \in Ids(pre.pages) => p \in pre.pages
    /\ db.pages # pre.pages =>
          \/ /\ call.op = "page_sync" /\ ret.ok
             /\ \E row \in db.pages :
                   /\ row.id \notin Ids(pre.pages)
                   /\ db.pages = pre.pages \cup {row}
          \/ /\ call.op \in {"delete_site", "delete_crawl"}
             /\ db.pages \subseteq pre.pages
    /\ (call.op = "page_sync" /\ ret.ok) =>
          Cardinality(db.pages) = Cardinality(pre.pages) + 1

\* the page that is written is in the table already, and now it is there twice
C33_Witness ==
    /\ call.op = "page_sync" /\ ret.ok
    /\ \E p \in pre.pages, q \in db.pages \ pre.pages :
          /\ Content(p) = Content(q)
          /\ p \in db.pages

\* ------------------------------------------------------------------------
\* C34: within one call of new_crawl, on_update is never running for two
\* URLs at once, however the fetches of the URLs overlap.
\* ------------------------------------------------------------------------
\* the steps whose on_update call is running
InCallback == {i \in Steps : step[i].st = "emit"}

C34_CallbackSerialized == Cardinality(InCallback) <= 1

\* two fetches were in flight together and both have returned: on_update
\* runs for one of the URLs while the other step waits for the lock
C34_Witness ==
    /\ cpc = "run"
    /\ \E i \in InCallback :
          \E j \in Steps \ {i} : step[j].st = "lockwait"

\* ------------------------------------------------------------------------
\* A second call of new_crawl, made by a user task while the first is
\* running.  It goes through the same three blocks under the lock; the
\* sitemap it reads lists one url, and the server of that url is not
\* reached, so the call writes its Crawl row, reports PageFailed and returns.
\* The store it starts from has a site in it, written by an earlier run.
\* ------------------------------------------------------------------------
\* what the server of the sitemap answers to the second call
RivalSitemapResponses == {r \in SitemapResponses : Len(r.body.locs) <= 1}

\* let site = { let db_lock = db.lock().await; .. }: the lock is granted
RivalSiteLock(u, site_id) ==
    /\ upc[u] = "wait"
    /\ LockFree
    /\ lock' = u
    /\ uop' = [uop EXCEPT ![u] = [NoOp EXCEPT !.op = "new_crawl", !.id = site_id]]
    /\ upc' = [upc EXCEPT ![u] = "c_site"]
    /\ UNCHANGED <<db, qpages, qi, qres, ures, calls, cgone>>
    /\ UNCHANGED <<crawlVars, storeVars, httpVars, guiVars>>

\* Site::fetch(site_id, &*db_lock), then the guard is dropped
RivalSiteFetch(u) ==
    /\ upc[u] = "c_site"
    /\ LET r == SiteFetch(db, uop[u].id)
       IN IF r.ok
          THEN /\ upc' = [upc EXCEPT ![u] = "c_map"]
               /\ uop' = [uop EXCEPT ![u].url = r.site.sitemap_url]
               /\ UNCHANGED ures
          ELSE /\ upc' = [upc EXCEPT ![u] = "idle"]
               /\ uop' = [uop EXCEPT ![u] = NoOp]
               /\ ures' = [ures EXCEPT ![u] = "err"]
    /\ lock' = NoOne
    /\ UNCHANGED <<db, qpages, qi, qres, calls, cgone>>
    /\ UNCHANGED <<crawlVars, storeVars, httpVars, guiVars>>

\* get_sitemap(..).await?, Sitemap::new(..)?
RivalSitemap(u, resp) ==
    /\ upc[u] = "c_map"
    /\ LET g == GetSitemap(uop[u].url, resp)
           s == IF g.ok THEN SitemapNew(g.body) ELSE g
       IN IF s.ok
          THEN /\ upc' = [upc EXCEPT ![u] = "c_wait"]
               /\ UNCHANGED <<uop, ures>>
          ELSE /\ upc' = [upc EXCEPT ![u] = "idle"]
               /\ uop' = [uop EXCEPT ![u] = NoOp]
               /\ ures' = [ures EXCEPT ![u] = "err"]
    /\ UNCHANGED <<db, lock, qpages, qi, qres, calls, cgone>>
    /\ UNCHANGED <<crawlVars, storeVars, httpVars, guiVars>>

\* let crawl_id = { let mut db_lock = db.lock().await; .. }: the lock is granted
RivalRowLock(u) ==
    /\ upc[u] = "c_wait"
    /\ LockFree
    /\ lock' = u
    /\ upc' = [upc EXCEPT ![u] = "c_sync"]
    /\ UNCHANGED <<db, uop, qpages, qi, qres, ures, calls, cgone>>
    /\ UNCHANGED <<crawlVars, storeVars, httpVars, guiVars>>

\* crawl.sync(&mut *db_lock)?, then the guard is dropped
RivalRowSync(u) ==
    /\ upc[u] = "c_sync"
    /\ LET r == CrawlInsert(db, uop[u].id, Now)
       IN /\ db' = r.db
          /\ IF r.ok
             THEN /\ upc' = [upc EXCEPT ![u] = "c_fetch"]
                  /\ UNCHANGED <<uop, ures>>
             ELSE /\ upc' = [upc EXCEPT ![u] = "idle"]
                  /\ uop' = [uop EXCEPT ![u] = NoOp]
                  /\ ures' = [ures EXCEPT ![u] = "err"]
    /\ lock' = NoOne
    /\ UNCHANGED <<qpages, qi, qres, calls, cgone>>
    /\ UNCHANGED <<crawlVars, storeVars, httpVars, guiVars>>

\* get_html(url).await is an Err: on_update(PageFailed(..)), the stream is
\* at its end, Ok(())
RivalReturn(u) ==
    /\ upc[u] = "c_fetch"
    /\ upc' = [upc EXCEPT ![u] = "idle"]
    /\ uop' = [uop EXCEPT ![u] = NoOp]
    /\ ures' = [ures EXCEPT ![u] = "ok"]
    /\ UNCHANGED <<db, lock, qpages, qi, qres, calls, cgone>>
    /\ UNCHANGED <<crawlVars, storeVars, httpVars, guiVars>>

RivalNext ==
    \/ \E u \in Users, site_id \in IdArgs : RivalSiteLock(u, site_id)
    \/ \E u \in Users : RivalSiteFetch(u)
    \/ \E u \in Users, resp \in RivalSitemapResponses : RivalSitemap(u, resp)
    \/ \E u \in Users : RivalRowLock(u)
    \/ \E u \in Users : RivalRowSync(u)
    \/ \E u \in Users : RivalReturn(u)

\* the calls that delete a row of crawls, itself or through its site
DeleteOps == {op \in UserOps : op.op \in {"delete_site", "delete_crawl"}}

\* the first new_crawl, and user tasks that delete or call new_crawl
TwoCrawlNext ==
    \/ CrawlNext
    \/ \E u \in Users : UserCall(u)
    \/ \E u \in Users, op \in DeleteOps : UserLock(u, op)
    \/ \E u \in Users : UserExec(u)
    \/ RivalNext

\* palimp.db as an earlier run left it: one site, nothing else
TwoCrawlInit ==
    /\ db = SiteInsert(EmptyDb, "example.com", "/sitemap.xml").db
    /\ lock = NoOne
    /\ cpc = "idle"
    /\ carg = [site_id |-> None, max_concurrent |-> 0]
    /\ csite = NoSite
    /\ curls = <<>>
    /\ cid = None
    /\ step = <<>>
    /\ outcomes = <<>>
    /\ cgone = FALSE
    /\ upc = [u \in Users |-> "idle"]
    /\ uop = [u \in Users |-> NoOp]
    /\ qpages = [u \in Users |-> <<>>]
    /\ qi = [u \in Users |-> 0]
    /\ qres = [u \in Users |-> <<>>]
    /\ ures = [u \in Users |-> "none"]
    /\ calls = 0
    /\ pre = EmptyDb
    /\ call = NoCall
    /\ ret = NoRet
    /\ born = Stamped(db)
    /\ dead = [k \in Kinds |-> {}]
    /\ hreq = NoRequest
    /\ hresp = NoAnswer
    /\ hret = NoResult
    /\ chan = <<>>
    /\ gpc = "running"
    /\ gsent = <<>>
    /\ ghandled = <<>>
    /\ gcache = <<>>
    /\ gindex = <<>>

TwoCrawlSpec == TwoCrawlInit /\ [][TwoCrawlNext]_vars

\* ------------------------------------------------------------------------
\* C35: once the Crawl row of a running new_crawl was deleted by another
\* caller, every page write of the call fails, is reported as PageFailed and
\* leaves the store as it was; no row of pages carries the id of the crawl
\* from then on; and the call still reports every url once and returns Ok.
\* ------------------------------------------------------------------------
C35_DeletedCrawlTakesNoPages ==
    [][/\ cgone => CrawlPages = {}
       /\ cgone' => CrawlPages' = {}
       /\ \A i \in Steps :
             (cgone /\ step[i].st = "locked" /\ step'[i].st = "emit") =>
                 (step'[i].err # "" /\ db' = db)
       /\ (cgone /\ cpc = "run") => cpc' \in {"run", "ret_ok"}
       /\ (cgone' /\ cpc' = "ret_ok") =>
             /\ Len(outcomes') = Len(curls')
             /\ \A i \in 1..Len(curls') : Cardinality({k \in 1..Len(outcomes') : outcomes'[k].idx = i}) = 1
      ]_vars

\* ------------------------------------------------------------------------
\* C36: from the insert of its Query row to its return, Application::query
\* is the only caller that touches the store: the store changes by the
\* turns of its own loop alone, which add rows of results and nothing else,
\* and the pages the loop goes through are the pages the crawl has in the
\* store, as it had them when the Query row was written.
\* ------------------------------------------------------------------------
\* the Query row of u is written and the call has not returned
QueryUnderWay(u) == upc[u] \in {"q_fetch", "q_loop"}

C36_QueryIsAtomic ==
    [][\A u \in Users :
          /\ upc[u] = "q_loop" => qpages[u] = FetchByCrawlId(db, uop[u].id)
          /\ (QueryUnderWay(u) /\ db' # db) =>
                /\ upc[u] = "q_loop" /\ upc'[u] = "q_loop"
                /\ qi'[u] = qi[u] + 1
                /\ [db' EXCEPT !.results = {}] = [db EXCEPT !.results = {}]
                /\ \A r \in db'.results \ db.results :
                      /\ r.selector = uop[u].selector
                      /\ r.page_id = qpages[u][qi[u]].id
          /\ (QueryUnderWay(u) /\ upc'[u] = "q_loop") =>
                FetchByCrawlId(db', uop[u].id) = FetchByCrawlId(db, uop[u].id)
      ]_vars

\* a query has written a row of results for a page of the running crawl
\* and is not yet done, while a page of that crawl waits for the lock to be
\* written
C36_Witness ==
    \E u \in Users :
       /\ upc[u] = "q_loop"
       /\ uop[u].id = cid
       /\ qi[u] > 1
       /\ \E r \in db.results : r.page_id = qpages[u][1].id /\ r.selector = uop[u].selector
       /\ \E i \in Steps : step[i].st = "lockwait"

\* ------------------------------------------------------------------------
\* C37: Application::query on a crawl id that is not in crawls is an error:
\* it returns no entries and the store is as it was, with no row added to
\* queries or to results.
\* ------------------------------------------------------------------------
QueryOfAbsentCrawl == call.op = "query" /\ call.ref \notin Ids(pre.crawls)

C37_QueryOfAbsentCrawlFails ==
    QueryOfAbsentCrawl =>
        /\ ~ret.ok
        /\ ret.rows = <<>>
        /\ db.queries = pre.queries /\ db.results = pre.results
        /\ db = pre

\* the store holds another crawl with a page the selector matches on, and
\* the crawl that is asked for is not there
C37_Witness ==
    /\ QueryOfAbsentCrawl
    /\ \E p \in pre.pages : TrueCount(p.html_content, call.selector) > 0
    /\ db = pre

\* ------------------------------------------------------------------------
\* C38: the id the store gives to a row it inserts was never the id of a
\* row of that table before, deleted rows included.
\* ------------------------------------------------------------------------
\* the ids of the rows the last call inserted into a table
Inserted(k) == Ids(Table(db, k)) \ Ids(Table(pre, k))

C38_IdsNeverReused == \A k \in Kinds : Inserted(k) \cap dead[k] = {}

\* ------------------------------------------------------------------------
\* C39: delete_query takes the one row out of queries and nothing else: the
\* rows of results that the query wrote stay as they are, and
\* list_results_for_query of another Query row of the same crawl and
\* selector returns what it returned for the deleted one.
\* ------------------------------------------------------------------------
\* the Query rows left that have the crawl and the selector of the deleted one
Twins ==
    {q \in db.queries :
        \E q0 \in pre.queries :
           q0.id = call.id /\ q0.crawl_id = q.crawl_id /\ q0.selector = q.selector}

C39_DeleteQueryKeepsResults ==
    call.op = "delete_query" =>
        /\ db.queries = {q \in pre.queries : q.id # call.id}
        /\ db.results = pre.results
        /\ [db EXCEPT !.queries = {}] = [pre EXCEPT !.queries = {}]
        /\ \A q \in Twins :
              /\ ListResultsForQuery(db, q.id) = ListResultsForQuery(pre, call.id)
              /\ ListResultsForQuery(db, q.id) = ListResultsForQuery(pre, q.id)

\* a query that wrote rows of results was deleted, and another Query row of
\* its crawl and selector still lists them
C39_Witness ==
    /\ call.op = "delete_query"
    /\ call.id \in Ids(pre.queries)
    /\ \E q \in Twins :
          /\ ListResultsForQuery(db, q.id).ok
          /\ Len(ListResultsForQuery(db, q.id).rows) > 0

\* ------------------------------------------------------------------------
\* palimp-gui.  The UI thread sends commands on an mpsc channel; the logic
\* thread, a current-thread runtime, receives them one at a time and makes
\* the facade call of each before it receives the next, so that its calls
\* run alone on the store.  The UI sends AddSite, LoadCrawlsForSite,
\* StartCrawl, DeleteCrawl and RunQuery; no handler sends DeleteSite or
\* RefreshAll.  What the handlers draw in the window is left out.
\* ------------------------------------------------------------------------
\* mpsc::channel::<AppCommand>(32)
ChannelCapacity == 32

NoCmd == [cmd |-> "none", id |-> None, domain |-> "", url |-> "", selector |-> "",
          limit |-> 0]

\* what the event handlers of the UI can send: the ids and the selector are
\* what the user typed or picked, the site of LoadCrawlsForSite is an entry
\* of site_index_map
UiCommands ==
    {[NoCmd EXCEPT !.cmd = "AddSite", !.domain = d, !.url = u] :
        d \in Domains, u \in SitemapUrls} \cup
    {[NoCmd EXCEPT !.cmd = "LoadCrawlsForSite", !.id = gindex[k]] :
        k \in 1..Len(gindex)} \cup
    {[NoCmd EXCEPT !.cmd = "StartCrawl", !.id = i, !.limit = n] :
        i \in IdArgs, n \in 0..MaxLimit} \cup
    {[NoCmd EXCEPT !.cmd = "DeleteCrawl", !.id = i] : i \in IdArgs} \cup
    {[NoCmd EXCEPT !.cmd = "RunQuery", !.id = i, !.selector = sel] :
        i \in IdArgs, sel \in Selectors}

\* tx.blocking_send(..): the command is put on the channel.  Once the
\* receiver is gone the send is an Err that the handler drops, and nothing
\* changes
UiSend(c) ==
    /\ gpc = "running"
    /\ Len(gsent) < MaxCmds
    /\ Len(chan) < ChannelCapacity
    /\ chan' = Append(chan, c)
    /\ gsent' = Append(gsent, c)
    /\ UNCHANGED <<db, lock, cgone, gpc, ghandled, gcache, gindex>>
    /\ UNCHANGED <<crawlVars, userVars, storeVars, httpVars>>

\* rx.recv().await returned cmd, and the arm of cmd has run to its end
Handled(ok) ==
    /\ chan' = Tail(chan)
    /\ ghandled' = Append(ghandled, [cmd |-> Head(chan), ok |-> ok])
    /\ UNCHANGED <<lock, cgone, gsent>>
    /\ UNCHANGED <<crawlVars, userVars, storeVars, httpVars>>

Receives(cmd) == gpc = "running" /\ chan # <<>> /\ Head(chan).cmd = cmd

\* refresh_sites: site_index_map is the ids list_sites returns
SiteIndexMap(d) == [k \in 1..Len(FetchAll(d.sites)) |-> FetchAll(d.sites)[k].id]

\* AppCommand::AddSite: an Err is printed, then refresh_sites
GuiAddSite ==
    /\ Receives("AddSite")
    /\ \E r \in {SiteInsert(db, Head(chan).domain, Head(chan).url)} :
          /\ db' = r.db
          /\ gindex' = SiteIndexMap(r.db)
          /\ Handled(r.ok)
    /\ UNCHANGED <<gpc, gcache>>

\* AppCommand::LoadCrawlsForSite: refresh_crawls_for_site; nothing writes
\* selected_crawl_cache, so no cached results are restored
GuiLoadCrawls ==
    /\ Receives("LoadCrawlsForSite")
    /\ Handled(TRUE)
    /\ UNCHANGED <<db, gpc, gcache, gindex>>

\* the orders in which n futures can come to write their page
Perms(n) == {f \in [1..n -> 1..n] : \A i, j \in 1..n : f[i] = f[j] => i = j}

\* what the server of a page answers while the GUI crawls
GuiPageAnswers(url) ==
    {r \in PageResponses(url) : ~r.reach \/ (r.readable /\ r.doc = DocItems)}

\* process_single_page of the futures from the k-th in order on
RECURSIVE PagesFrom(_, _, _, _, _, _)
PagesFrom(d, urls, order, k, crawl_id, answers) ==
    IF k > Len(urls) THEN d
    ELSE LET url == urls[order[k]]
             g == GetHtml(url, answers[order[k]])
             p == IF g.ok THEN PageNew(url, g.final_url, g.html, crawl_id) ELSE g
         IN PagesFrom(IF p.ok THEN PageSync(d, p).db ELSE d,
                      urls, order, k + 1, crawl_id, answers)

\* new_crawl with no other caller on the store
CrawlAlone(d, site_id, resp, answers, order) ==
    LET s == SiteFetch(d, site_id)
        g == IF s.ok THEN GetSitemap(s.site.sitemap_url, resp) ELSE Err("site")
        m == IF g.ok THEN SitemapNew(g.body) ELSE g
        c == CrawlInsert(d, site_id, Now)
    IN IF ~m.ok \/ ~c.ok THEN [ok |-> FALSE, db |-> d]
       ELSE [ok |-> TRUE, db |-> PagesFrom(c.db, m.urls, order, 1, c.id, answers)]

\* AppCommand::StartCrawl: "Crawl failed" or "Crawl finished." is printed,
\* then refresh_crawls_for_site
GuiStartCrawl ==
    /\ Receives("StartCrawl")
    /\ \E resp \in SitemapResponses :
          \E answers \in [1..Len(resp.body.locs) -> UNION {GuiPageAnswers(u) : u \in Urls}],
             order \in Perms(Len(resp.body.locs)) :
             /\ \A k \in 1..Len(resp.body.locs) :
                   answers[k] \in GuiPageAnswers(resp.body.locs[k])
             /\ Head(chan).limit = 1 => \A k \in 1..Len(resp.body.locs) : order[k] = k
             /\ \E r \in {CrawlAlone(db, Head(chan).id, resp, answers, order)} :
                   /\ db' = r.db
                   /\ Handled(r.ok)
    /\ UNCHANGED <<gpc, gcache, gindex>>

\* AppCommand::DeleteCrawl: an Err is printed, the results shown are cleared
GuiDeleteCrawl ==
    /\ Receives("DeleteCrawl")
    /\ \E r \in {CrawlDelete(db, Head(chan).id)} :
          /\ db' = r.db
          /\ Handled(r.ok)
    /\ UNCHANGED <<gpc, gcache, gindex>>

\* the rows RunQuery shows and caches: list_queries, the Query row of the
\* crawl with the highest id, list_results_for_query of it
ResultData(d, crawl_id) ==
    LET mine == {q \in d.queries : q.crawl_id = crawl_id}
        latest == CHOOSE q \in mine : \A o \in mine : o.id <= q.id
        results == ListResultsForQuery(d, latest.id)
    IN IF mine = {} \/ ~results.ok THEN <<>>
       ELSE [k \in 1..Len(results.rows) |->
               [id |-> results.rows[k].entry.id, page_url |-> results.rows[k].page_url,
                count |-> results.rows[k].entry.count]]

\* AppCommand::RunQuery: on an Err of app.query the arm prints it and
\* returns, which ends the async block of the logic thread and drops rx
GuiRunQuery ==
    /\ Receives("RunQuery")
    /\ \E r \in {RunQuery(db, Head(chan).id, Head(chan).selector, {})} :
          /\ db' = r.db
          /\ Handled(r.ok)
          /\ IF r.ok
             THEN /\ gcache' = (Head(chan).id :> ResultData(r.db, Head(chan).id)) @@ gcache
                  /\ UNCHANGED gpc
             ELSE /\ gpc' = "ended"
                  /\ UNCHANGED gcache
    /\ UNCHANGED gindex

GuiNext ==
    \/ \E c \in UiCommands : UiSend(c)
    \/ GuiAddSite
    \/ GuiLoadCrawls
    \/ GuiStartCrawl
    \/ GuiDeleteCrawl
    \/ GuiRunQuery

\* Application::new("palimp.db") on a new file, then the initial refresh_sites
GuiInit == Init /\ gindex = SiteIndexMap(db)

GuiSpec == GuiInit /\ [][GuiNext]_vars

\* ------------------------------------------------------------------------
\* C40: the command loop of the logic thread handles the commands in the
\* order they were sent and is still running after every command it
\* handled, those whose facade call failed included, so that a command on
\* the channel always has a loop to receive it.
\* ------------------------------------------------------------------------
C40_LoopSurvivesFailure ==
    /\ Len(ghandled) <= Len(gsent)
    /\ \A k \in 1..Len(ghandled) : ghandled[k].cmd = gsent[k]
    /\ \A k \in 1..Len(ghandled) : ~ghandled[k].ok => gpc = "running"
    /\ chan # <<>> => gpc = "running"
====
